---- MODULE Spec2Model ----
(***************************************************************************)
(* Model of the client-side task synchronisation core of 2do-list:         *)
(*   - todoService (the Task Store Gateway),                               *)
(*   - useTodoStore (the Task Synchronisation Core, a zustand store),      *)
(*   - the Supabase realtime handler registered by subscribeToRealtime,    *)
(*   - useAuthStore initialize/login/logout (the Session Core),            *)
(* together with the remote Supabase store (table todos under row level    *)
(* security) they talk to.  Every await on a network call is a suspension  *)
(* point: the request is served by the store in one step and its reply is  *)
(* handled by the client in a later step, so that other operations and     *)
(* feed events interleave in between.                                      *)
(***************************************************************************)
EXTENDS Integers, Sequences, FiniteSets, Bags, TLC

\* ------------------------------------------------------------------ bounds
MaxIds == 2          \* rows the store ever creates (ids are never reused)
MaxCalls == 1        \* gateway calls of the task store in flight at once
MaxStats == 1        \* statistics fetches (updateStats) in flight at once
MaxFeed == 1         \* change-feed events committed but not yet delivered
MaxTitleLen == 1     \* length of the title strings the user types
MaxDescLen == 0      \* length of the description strings the user types
MaxInits == 2        \* initialize() calls that are followed
MaxChannels == 3     \* realtime channels the client ever creates
MaxUnsub == 2        \* invocations of one channel's unsubscribe that are counted
MaxRows == 8         \* rows of one user the table holds when statistics are taken
MaxShown == 3        \* rows the table holds when the selectors are read
MaxHttp == 1         \* requests to /api/todos the backend handles at once
MaxToggles == 2      \* concurrent toggle requests for one task

\* ------------------------------------------------------------- value sets
Users == {"A", "B"}
NoUser == "none"
Ids == 1..MaxIds
Chars == {" ", "a"}
NoErr == "null"

\* useTodoStore.error holds the message of the gateway's Error: the
\* operation that threw ('Error al crear tarea: ...') and the cause.
Thrown(op, kind) == [op |-> op, kind |-> kind]
NoError == Thrown("none", NoErr)

\* Strings are sequences of characters.
StringsUpTo(n) == UNION {[1..k -> Chars] : k \in 0..n}
TitleInputs == StringsUpTo(MaxTitleLen)
DescInputs == StringsUpTo(MaxDescLen)

\* String.prototype.trim: strips the white space at both ends.
RECURSIVE TrimLeft(_)
TrimLeft(s) ==
  IF s = <<>> THEN <<>>
  ELSE IF Head(s) = " " THEN TrimLeft(Tail(s)) ELSE s

RECURSIVE TrimRight(_)
TrimRight(s) ==
  IF s = <<>> THEN <<>>
  ELSE IF s[Len(s)] = " " THEN TrimRight(SubSeq(s, 1, Len(s) - 1)) ELSE s

trim(s) == TrimRight(TrimLeft(s))

\* A row of table todos (created_at is the order of the ids: the store
\* stamps it at insertion and ids are handed out in insertion order).
Task(id, uid, title, description, completed) ==
  [id |-> id, user_id |-> uid, title |-> title,
   description |-> description, completed |-> completed]

\* ------------------------------------------------------------ statistics
\* Mutant of MathRound: the quotient is truncated.
MathTrunc(n, d) == n \div d

\* Math.round(x) for x = n / d >= 0 is floor(x + 1/2).
MathRound(n, d) == (2 * n + d) \div (2 * d)

CountCompleted(list) == Cardinality({i \in 1..Len(list) : list[i].completed})

\* The statistics object todoService.getTodoStats builds from the rows it
\* fetched.
StatsOf(list) ==
  LET total == Len(list)
      completed == CountCompleted(list)
  IN [total |-> total,
      completed |-> completed,
      pending |-> total - completed,
      completionRate |-> IF total > 0 THEN MathRound(completed * 100, total) ELSE 0]

ZeroStats == [total |-> 0, completed |-> 0, pending |-> 0, completionRate |-> 0]

\* ------------------------------------------------- partial update objects
\* A JavaScript object with the optional keys title, description, completed.
\* Each key is absent, present with the value undefined, or present with a
\* value:  [p |-> "absent" | "undefined" | "value", v |-> the value].
Keys == {"title", "description", "completed"}
AbsentStr == [p |-> "absent", v |-> <<>>]
AbsentBool == [p |-> "absent", v |-> FALSE]
OptStr(S) == {AbsentStr, [p |-> "undefined", v |-> <<>>]} \cup {[p |-> "value", v |-> s] : s \in S}
OptBool == {AbsentBool, [p |-> "undefined", v |-> FALSE]} \cup {[p |-> "value", v |-> b] : b \in BOOLEAN}
UpdateObjects == [title : OptStr(TitleInputs), description : OptStr(DescInputs), completed : OptBool]

\* The objects the callers of updateTodo build: { title, description }
\* (TaskItem.handleSaveEdit), { completed } (toggleTodo) and the empty
\* object; a key that is present may hold undefined.
UpdateShapes == {{}, {"completed"}, {"title", "description"}}
NoFields == [title |-> AbsentStr, description |-> AbsentStr, completed |-> AbsentBool]

\* Object.keys(updates): the keys that are present, whatever their value.
ObjectKeys(updates) == {k \in Keys : updates[k].p # "absent"}

UpdateInputs == {u \in UpdateObjects : ObjectKeys(u) \in UpdateShapes}

\* updates.k !== undefined
Defined(field) == field.p = "value"

\* ---------------------------------------------------- todoService (pure)
\* Mutant of TitleMissing: the guard forgets to trim.
TitleMissingUntrimmed(title) == title = <<>>

\* createTodo's guard: !title || title.trim().length === 0
TitleMissing(title) == title = <<>> \/ Len(trim(title)) = 0

\* The row todoService.createTodo sends to insert.
InsertPayload(title, description) ==
  [title |-> [p |-> "value", v |-> trim(title)],
   description |-> [p |-> "value", v |-> trim(description)],
   completed |-> AbsentBool]

\* updateTodo's guards before the store call: the message it throws, or
\* NoErr when the request goes out.
UpdateRejection(updates) ==
  IF Cardinality(ObjectKeys(updates)) = 0 THEN Thrown("updateTodo", "ValidationError")
  ELSE IF Defined(updates.title) /\ TitleMissing(updates.title.v)
         THEN Thrown("updateTodo", "ValidationError")
  ELSE NoError

\* updateTodo's cleanUpdates: only the keys whose value is not undefined.
CleanUpdates(updates) ==
  [title |-> IF Defined(updates.title)
               THEN [p |-> "value", v |-> trim(updates.title.v)] ELSE AbsentStr,
   description |-> IF Defined(updates.description)
               THEN [p |-> "value", v |-> trim(updates.description.v)] ELSE AbsentStr,
   completed |-> IF Defined(updates.completed)
               THEN [p |-> "value", v |-> updates.completed.v] ELSE AbsentBool]

\* What the gateway makes of the store's reply to delete: it throws only
\* when the reply carries an error; the number of rows deleted is not read.
DeleteOutcome(err, matched) == err

\* What the gateway makes of the store's reply to update ... .select().single()
UpdateOutcome(err, data) ==
  IF err # NoError THEN err
  ELSE IF data = <<>> THEN Thrown("updateTodo", "NotFoundError")
  ELSE NoError

\* ------------------------------------------------- useTodoStore (pure)
\* [newTodo, ...state.todos]
Prepend(list, task) == <<task>> \o list

\* Mutant of ReplaceById: the entry is removed and the task put at the
\* head.
ReplaceByMoveToHead(list, id, task) ==
  IF \E i \in 1..Len(list) : list[i].id = id
    THEN <<task>> \o SelectSeq(list, LAMBDA todo : todo.id # id)
    ELSE list

\* state.todos.map(todo => todo.id === id ? updatedTodo : todo)
ReplaceById(list, id, task) ==
  [i \in 1..Len(list) |-> IF list[i].id = id THEN task ELSE list[i]]

\* Mutant of RemoveById: todos.splice(todos.findIndex(...), 1), which
\* removes the last entry when the id is not found (index -1).
RemoveBySplice(list, id) ==
  IF list = <<>> THEN <<>>
  ELSE IF \E i \in 1..Len(list) : list[i].id = id
    THEN LET k == CHOOSE i \in 1..Len(list) :
                    list[i].id = id /\ \A j \in 1..(i - 1) : list[j].id # id
         IN SubSeq(list, 1, k - 1) \o SubSeq(list, k + 1, Len(list))
    ELSE SubSeq(list, 1, Len(list) - 1)

\* state.todos.filter(todo => todo.id !== id)
RECURSIVE RemoveById(_, _)
RemoveById(list, id) ==
  IF list = <<>> THEN <<>>
  ELSE IF Head(list).id = id THEN RemoveById(Tail(list), id)
  ELSE <<Head(list)>> \o RemoveById(Tail(list), id)

HasId(list, id) == \E i \in 1..Len(list) : list[i].id = id

\* The realtime handler's effect on todos, by payload.eventType.
HandleInsert(list, new) == Prepend(list, new)
HandleUpdate(list, new) == ReplaceById(list, new.id, new)
HandleDelete(list, old) == RemoveById(list, old.id)

\* ------------------------------------------------------------------ state
VARIABLES
  rows,         \* the Supabase table todos: the set of rows it holds
  nextId,       \* the id the store gives the next inserted row
  session,      \* the user of the Supabase client's access token, or NoUser
  user,         \* useAuthStore.user
  authLoading,  \* useAuthStore.loading
  authError,    \* useAuthStore.error
  authOp,       \* the login or logout call in flight, or NoAuthOp
  initialized,  \* useAuthStore.initialized
  listeners,    \* the callbacks registered with onAuthStateChange, counted
  inits,        \* bag of initialize() calls suspended on getCurrentUser
  todos,        \* useTodoStore.todos: the Collection
  loading,      \* useTodoStore.loading
  error,        \* useTodoStore.error
  stats,        \* useTodoStore.stats
  channel,      \* useTodoStore.channel: the place in chans of the channel held, or NoChannel
  chans,        \* the channels supabase.channel() created, in creation order
  calls,        \* bag of store operations suspended on a gateway call
  statsq,       \* bag of updateStats calls suspended on getTodoStats
  feed,         \* change-feed events committed and not yet delivered
  http,         \* bag of the requests to /api/todos the backend is handling
  read          \* what the last call of a selector of the task store returned

vars == <<rows, nextId, session, user, authLoading, authError, authOp,
          initialized, listeners, inits,
          todos, loading, error, stats, channel, chans, calls, statsq, feed,
          http, read>>

storeVars == <<rows, nextId>>
initVars == <<initialized, listeners, inits>>
authVars == <<session, user, authLoading, authError, authOp, initVars>>
viewVars == <<todos, loading, error, stats>>
chanVars == <<channel, chans>>
apiVars == <<http, read>>

NoChannel == 0

\* No selector was called yet.
NoRead == [op |-> "none", filter |-> "all", term |-> <<>>, threw |-> FALSE, result |-> <<>>]
NoAuthOp == [kind |-> "none", phase |-> "none", who |-> NoUser, err |-> NoErr]

\* A store operation suspended on a gateway call.
\*   phase  where the call is: the request named by the phase is on the
\*          wire, or its reply has come back and waits for the client
\*   tok    the user of the access token the request on the wire carries
\*   uid    the user supabase.auth.getUser() returned (createTodo)
\*   fields the payload of insert / update
\*   data   the rows of the reply; st the statistics of the reply
\*   matched  the number of rows the store's delete removed
Call(kind, phase, id, fields, tok) ==
  [kind |-> kind, phase |-> phase, id |-> id, fields |-> fields, tok |-> tok,
   uid |-> NoUser, data |-> <<>>, st |-> ZeroStats, matched |-> 0, err |-> NoError]

StatsCall(tok) == [phase |-> "req", tok |-> tok, st |-> ZeroStats, err |-> NoError]

\* A postgres_changes payload on its way to the callback of channel ch.
Event(ch, eventType, row) == [ch |-> ch, eventType |-> eventType, row |-> row]

\* The value after 'user_id=eq.' in the filter of the channel:
\* (supabase.auth.getUser() || {})?.data?.user?.id.  getUser() returns a
\* Promise, which is truthy and has no data property, so the chain
\* evaluates to undefined for every user and the filter reads
\* 'user_id=eq.undefined'.
Undefined == "undefined"
SubscriptionFilter(who) == Undefined

\* A channel object: the user whose credentials opened it, the user id
\* its filter names, and the record of the invocations of its
\* unsubscribe(), each named by its caller.
Channel(who) == [who |-> who, filter |-> SubscriptionFilter(who), unsub |-> <<>>]

\* The channels that are subscribed: unsubscribe() was never invoked.
Subscribed == {k \in 1..Len(chans) : chans[k].unsub = <<>>}

\* channel.unsubscribe() is invoked on channel k by caller.
Unsubscribe(k, caller) == [chans EXCEPT ![k].unsub = Append(@, caller)]

\* The events still on their way to a channel that is unsubscribed are
\* not delivered.
DropChannel(q, k) == SelectSeq(q, LAMBDA e : e.ch # k)

InFlight == BagToSet(calls)
StatsInFlight == BagToSet(statsq)
Put(bag, c) == bag (+) SetToBag({c})
Take(bag, c) == bag (-) SetToBag({c})
Swap(bag, c, d) == Put(Take(bag, c), d)

\* ------------------------------------------------------ the remote store
\* Row level security: a request sees and touches the rows of its token's user.
Visible(tok) == {r \in rows : r.user_id = tok}

\* .order('created_at', { ascending: false })
RECURSIVE OrderDesc(_)
OrderDesc(S) ==
  IF S = {} THEN <<>>
  ELSE LET r == CHOOSE x \in S : \A y \in S : y.id <= x.id
       IN <<r>> \o OrderDesc(S \ {r})

\* The row after UPDATE ... SET fields.
ApplyFields(r, fields) ==
  [r EXCEPT !.title = IF fields.title.p = "value" THEN fields.title.v ELSE @,
            !.description = IF fields.description.p = "value" THEN fields.description.v ELSE @,
            !.completed = IF fields.completed.p = "value" THEN fields.completed.v ELSE @]

\* A committed row change is published to the channel when its row is one
\* the subscriber may select.
RECURSIVE PublishTo(_, _, _, _)
PublishTo(q, S, eventType, row) ==
  IF S = {} THEN q
  ELSE LET k == CHOOSE x \in S : \A y \in S : x <= y
       IN PublishTo(IF row.user_id = chans[k].who
                      THEN Append(q, Event(k, eventType, row)) ELSE q,
                    S \ {k}, eventType, row)

Publish(eventType, row) == PublishTo(feed, Subscribed, eventType, row)

FeedHasRoom == Len(feed) < MaxFeed

\* ---------------------------------------------------------------- Init
\* The dashboard of user A right after it was opened: the stores are as
\* constructed, A is logged in, the table is empty.
Init ==
  /\ rows = {}
  /\ nextId = 1
  /\ session = "A"
  /\ user = "A"
  /\ authLoading = FALSE
  /\ authError = NoErr
  /\ authOp = NoAuthOp
  /\ initialized = TRUE
  /\ listeners = 1
  /\ inits = EmptyBag
  /\ todos = <<>>
  /\ loading = FALSE
  /\ error = NoError
  /\ stats = ZeroStats
  /\ channel = NoChannel
  /\ chans = <<>>
  /\ calls = EmptyBag
  /\ statsq = EmptyBag
  /\ feed = <<>>
  /\ http = EmptyBag
  /\ read = NoRead

\* Mutant of ProtectedRoute: the route does not wait for the session check.
RouteBeforeCheck ==
  IF authLoading THEN "spinner"
  ELSE IF user = NoUser THEN "redirect"
  ELSE "children"

\* Mutant of ProtectedRoute: the spinner does not wait for loading.
RouteIgnoresLoading ==
  IF ~initialized THEN "spinner"
  ELSE IF user = NoUser THEN "redirect"
  ELSE "children"

\* What ProtectedRoute renders: the spinner while an auth operation is
\* loading or the session check is not done, else <Navigate to="/login">
\* when there is no user, else its children.
ProtectedRoute ==
  IF authLoading \/ ~initialized THEN "spinner"
  ELSE IF user = NoUser THEN "redirect"
  ELSE "children"

\* ProtectedRoute renders the dashboard (TaskForm, TaskList, TaskItem).
DashboardShown == ProtectedRoute = "children"

CanCall == BagCardinality(calls) < MaxCalls
CanFetchStats == BagCardinality(statsq) < MaxStats

\* await get().updateStats(): the request of getTodoStats goes out.
SpawnStats == Put(statsq, StatsCall(session))

\* ---------------------------------------------- useTodoStore: fetchTodos
fetchTodos ==
  /\ DashboardShown /\ CanCall
  /\ loading' = TRUE /\ error' = NoError
  /\ calls' = Put(calls, Call("fetch", "list", 0, NoFields, session))
  /\ UNCHANGED <<storeVars, authVars, todos, stats, chanVars, statsq, feed, apiVars>>

\* todoService.getTodos is served: select * order by created_at desc.
ServeGetTodos(c) ==
  /\ c \in InFlight /\ c.kind = "fetch" /\ c.phase = "list"
  /\ \/ calls' = Swap(calls, c, [c EXCEPT !.phase = "listed", !.data = OrderDesc(Visible(c.tok))])
     \/ calls' = Swap(calls, c, [c EXCEPT !.phase = "resp", !.err = Thrown("getTodos", "StoreError")])
  /\ UNCHANGED <<storeVars, authVars, viewVars, chanVars, statsq, feed, apiVars>>

\* fetchTodos resumes with the list and awaits todoService.getTodoStats.
fetchTodosStats(c) ==
  /\ c \in InFlight /\ c.kind = "fetch" /\ c.phase = "listed"
  /\ calls' = Swap(calls, c, [c EXCEPT !.phase = "stats", !.tok = session])
  /\ UNCHANGED <<storeVars, authVars, viewVars, chanVars, statsq, feed, apiVars>>

\* todoService.getTodoStats of fetchTodos is served: select completed.
ServeFetchStats(c) ==
  /\ c \in InFlight /\ c.kind = "fetch" /\ c.phase = "stats"
  /\ \/ calls' = Swap(calls, c, [c EXCEPT !.phase = "resp", !.st = StatsOf(OrderDesc(Visible(c.tok)))])
     \/ calls' = Swap(calls, c, [c EXCEPT !.phase = "resp", !.err = Thrown("getTodoStats", "StoreError")])
  /\ UNCHANGED <<storeVars, authVars, viewVars, chanVars, statsq, feed, apiVars>>

\* Mutant of FetchReplyTodos: the catch block empties the list.
FetchReplyClearsOnError(list, err, data) ==
  IF err = NoError THEN data ELSE <<>>

\* todos after fetchTodos resumed: set({ todos, stats, loading: false })
\* or the catch block, which leaves todos alone.
FetchReplyTodos(list, err, data) ==
  IF err = NoError THEN data ELSE list

\* fetchTodos resumes with both replies, or in its catch block.
fetchTodosDone(c) ==
  /\ c \in InFlight /\ c.kind = "fetch" /\ c.phase = "resp"
  /\ calls' = Take(calls, c)
  /\ todos' = FetchReplyTodos(todos, c.err, c.data)
  /\ loading' = FALSE
  /\ IF c.err = NoError
       THEN /\ stats' = c.st /\ UNCHANGED error
       ELSE /\ error' = c.err /\ UNCHANGED stats
  /\ UNCHANGED <<storeVars, authVars, chanVars, statsq, feed, apiVars>>

\* ---------------------------------------------- useTodoStore: createTodo
\* A rejection by the gateway's validation is thrown before the first
\* await on the network, so the catch block runs in the same turn.
createTodo(title, description) ==
  /\ DashboardShown /\ CanCall
  /\ IF TitleMissing(title)
       THEN /\ loading' = FALSE /\ error' = Thrown("createTodo", "ValidationError")
            /\ UNCHANGED calls
       ELSE /\ loading' = TRUE /\ error' = NoError
            /\ calls' = Put(calls, Call("create", "getUser", 0,
                              [NoFields EXCEPT !.title = [p |-> "value", v |-> title],
                                               !.description = [p |-> "value", v |-> description]],
                              session))
  /\ UNCHANGED <<storeVars, authVars, todos, stats, chanVars, statsq, feed, apiVars>>

\* supabase.auth.getUser() is served by the authentication service.
ServeGetUser(c) ==
  /\ c \in InFlight /\ c.kind = "create" /\ c.phase = "getUser"
  /\ \/ calls' = Swap(calls, c, [c EXCEPT !.phase = "gotUser", !.uid = c.tok])
     \/ calls' = Swap(calls, c, [c EXCEPT !.phase = "gotUser", !.err = Thrown("getUser", "AuthError")])
  /\ UNCHANGED <<storeVars, authVars, viewVars, chanVars, statsq, feed, apiVars>>

\* todoService.createTodo resumes: if (userError || !user) throw, else the
\* insert goes out with the trimmed fields and user_id: user.id.
createTodoInsert(c) ==
  /\ c \in InFlight /\ c.kind = "create" /\ c.phase = "gotUser"
  /\ IF c.err # NoError \/ c.uid = NoUser
       THEN /\ calls' = Take(calls, c)
            /\ error' = Thrown("createTodo", "AuthError") /\ loading' = FALSE
       ELSE /\ calls' = Swap(calls, c,
                   [c EXCEPT !.phase = "insert", !.tok = session,
                             !.fields = InsertPayload(c.fields.title.v, c.fields.description.v)])
            /\ UNCHANGED <<error, loading>>
  /\ UNCHANGED <<storeVars, authVars, todos, stats, chanVars, statsq, feed, apiVars>>

\* insert([...]).select().single() is served: the policy's WITH CHECK
\* (auth.uid() = user_id) passes or the store rejects; the store stamps
\* the id and completed = false.
ServeInsert(c) ==
  /\ c \in InFlight /\ c.kind = "create" /\ c.phase = "insert"
  /\ \/ /\ c.tok = c.uid /\ nextId <= MaxIds
        /\ LET row == Task(nextId, c.uid, c.fields.title.v, c.fields.description.v, FALSE)
           IN /\ rows' = rows \cup {row}
              /\ nextId' = nextId + 1
              /\ feed' = Publish("INSERT", row)
              /\ calls' = Swap(calls, c, [c EXCEPT !.phase = "resp", !.data = <<row>>])
     \/ /\ calls' = Swap(calls, c, [c EXCEPT !.phase = "resp", !.err = Thrown("createTodo", "StoreError")])
        /\ UNCHANGED <<storeVars, feed>>
  /\ UNCHANGED <<authVars, viewVars, chanVars, statsq, apiVars>>

\* Mutant of CreateReplyTodos: the catch block empties the list.
CreateReplyClearsOnError(list, err, data) ==
  IF err = NoError THEN <<data[1]>> \o list ELSE <<>>

\* todos after createTodo resumed with the gateway's result.
CreateReplyTodos(list, err, data) ==
  IF err = NoError THEN Prepend(list, data[1]) ELSE list

\* createTodo resumes: the new task is prepended and updateStats is
\* awaited, or the catch block records the error.
createTodoDone(c) ==
  /\ c \in InFlight /\ c.kind = "create" /\ c.phase = "resp"
  /\ calls' = Take(calls, c)
  /\ todos' = CreateReplyTodos(todos, c.err, c.data)
  /\ loading' = FALSE
  /\ IF c.err = NoError
       THEN /\ CanFetchStats /\ statsq' = SpawnStats /\ UNCHANGED error
       ELSE /\ error' = c.err /\ UNCHANGED statsq
  /\ UNCHANGED <<storeVars, authVars, stats, chanVars, feed, apiVars>>

\* ------------------------------------ useTodoStore: updateTodo, toggleTodo
\* The ids a caller can name: those the store has handed out.
KnownIds == {i \in Ids : i < nextId}

updateTodo(id, updates) ==
  /\ DashboardShown /\ CanCall
  /\ IF UpdateRejection(updates) # NoError
       THEN /\ loading' = FALSE /\ error' = UpdateRejection(updates)
            /\ UNCHANGED calls
       ELSE /\ loading' = TRUE /\ error' = NoError
            /\ calls' = Put(calls, Call("update", "req", id, CleanUpdates(updates), session))
  /\ UNCHANGED <<storeVars, authVars, todos, stats, chanVars, statsq, feed, apiVars>>

\* toggleTodo(id, completed) is updateTodo(id, { completed }).
toggleTodo(id, completed) ==
  updateTodo(id, [NoFields EXCEPT !.completed = completed])

\* update(cleanUpdates).eq('id', id).select().single() is served.  No row
\* of the caller with that id: single() answers with an error.  An empty
\* cleanUpdates changes nothing; the store answers with an error or with
\* the row as it is.
ServeUpdate(c) ==
  /\ c \in InFlight /\ c.kind = "update" /\ c.phase = "req"
  /\ LET hit == {r \in Visible(c.tok) : r.id = c.id}
     IN \/ /\ hit # {} /\ c.fields # NoFields /\ FeedHasRoom
           /\ LET old == CHOOSE r \in hit : TRUE
                  new == ApplyFields(old, c.fields)
              IN /\ rows' = (rows \ {old}) \cup {new}
                 /\ feed' = Publish("UPDATE", new)
                 /\ calls' = Swap(calls, c, [c EXCEPT !.phase = "resp", !.data = <<new>>])
           /\ UNCHANGED nextId
        \/ /\ hit # {} /\ c.fields = NoFields
           /\ calls' = Swap(calls, c, [c EXCEPT !.phase = "resp",
                                                 !.data = <<CHOOSE r \in hit : TRUE>>])
           /\ UNCHANGED <<storeVars, feed>>
        \/ /\ calls' = Swap(calls, c, [c EXCEPT !.phase = "resp", !.err = Thrown("updateTodo", "StoreError")])
           /\ UNCHANGED <<storeVars, feed>>
  /\ UNCHANGED <<authVars, viewVars, chanVars, statsq, apiVars>>

\* todos after updateTodo resumed with the gateway's result.
UpdateReplyTodos(list, id, err, data) ==
  IF UpdateOutcome(err, data) = NoError THEN ReplaceById(list, id, data[1]) ELSE list

updateTodoDone(c) ==
  /\ c \in InFlight /\ c.kind = "update" /\ c.phase = "resp"
  /\ calls' = Take(calls, c)
  /\ todos' = UpdateReplyTodos(todos, c.id, c.err, c.data)
  /\ loading' = FALSE
  /\ IF UpdateOutcome(c.err, c.data) = NoError
       THEN /\ CanFetchStats /\ statsq' = SpawnStats /\ UNCHANGED error
       ELSE /\ error' = UpdateOutcome(c.err, c.data) /\ UNCHANGED statsq
  /\ UNCHANGED <<storeVars, authVars, stats, chanVars, feed, apiVars>>

\* ---------------------------------------------- useTodoStore: deleteTodo
deleteTodo(id) ==
  /\ DashboardShown /\ CanCall
  /\ loading' = TRUE /\ error' = NoError
  /\ calls' = Put(calls, Call("delete", "req", id, NoFields, session))
  /\ UNCHANGED <<storeVars, authVars, todos, stats, chanVars, statsq, feed, apiVars>>

\* delete().eq('id', id) is served: the caller's rows with that id go;
\* deleting no row is not an error of the store.
ServeDelete(c) ==
  /\ c \in InFlight /\ c.kind = "delete" /\ c.phase = "req"
  /\ LET hit == {r \in Visible(c.tok) : r.id = c.id}
     IN \/ /\ hit # {} /\ FeedHasRoom
           /\ rows' = rows \ hit
           /\ feed' = Publish("DELETE", CHOOSE r \in hit : TRUE)
           /\ calls' = Swap(calls, c, [c EXCEPT !.phase = "resp", !.matched = 1])
           /\ UNCHANGED nextId
        \/ /\ hit = {}
           /\ calls' = Swap(calls, c, [c EXCEPT !.phase = "resp", !.matched = 0])
           /\ UNCHANGED <<storeVars, feed>>
        \/ /\ calls' = Swap(calls, c, [c EXCEPT !.phase = "resp", !.err = Thrown("deleteTodo", "StoreError")])
           /\ UNCHANGED <<storeVars, feed>>
  /\ UNCHANGED <<authVars, viewVars, chanVars, statsq, apiVars>>

\* todos after deleteTodo resumed with the gateway's result.
DeleteReplyTodos(list, id, err, matched) ==
  IF DeleteOutcome(err, matched) = NoError THEN RemoveById(list, id) ELSE list

deleteTodoDone(c) ==
  /\ c \in InFlight /\ c.kind = "delete" /\ c.phase = "resp"
  /\ calls' = Take(calls, c)
  /\ todos' = DeleteReplyTodos(todos, c.id, c.err, c.matched)
  /\ loading' = FALSE
  /\ IF DeleteOutcome(c.err, c.matched) = NoError
       THEN /\ CanFetchStats /\ statsq' = SpawnStats /\ UNCHANGED error
       ELSE /\ error' = DeleteOutcome(c.err, c.matched) /\ UNCHANGED statsq
  /\ UNCHANGED <<storeVars, authVars, stats, chanVars, feed, apiVars>>

\* --------------------------------------------- useTodoStore: updateStats
\* todoService.getTodoStats is served.
ServeGetTodoStats(q) ==
  /\ q \in StatsInFlight /\ q.phase = "req"
  /\ \/ statsq' = Swap(statsq, q, [q EXCEPT !.phase = "resp", !.st = StatsOf(OrderDesc(Visible(q.tok)))])
     \/ statsq' = Swap(statsq, q, [q EXCEPT !.phase = "resp", !.err = Thrown("getTodoStats", "StoreError")])
  /\ UNCHANGED <<storeVars, authVars, viewVars, chanVars, calls, feed, apiVars>>

\* updateStats resumes: set({ stats }), or the error is logged and dropped.
updateStatsDone(q) ==
  /\ q \in StatsInFlight /\ q.phase = "resp"
  /\ statsq' = Take(statsq, q)
  /\ stats' = IF q.err = NoError THEN q.st ELSE stats
  /\ UNCHANGED <<storeVars, authVars, todos, loading, error, chanVars, calls, feed, apiVars>>

\* ------------------------------------------- useTodoStore: realtime feed
\* subscribeToRealtime: a no-op when a channel is held; else a channel
\* is created with the client's credentials, subscribed and kept in the
\* store.
subscribeToRealtime ==
  /\ DashboardShown
  /\ channel = NoChannel
  /\ Len(chans) < MaxChannels
  /\ chans' = Append(chans, Channel(session))
  /\ channel' = Len(chans) + 1
  /\ UNCHANGED <<storeVars, authVars, viewVars, calls, statsq, feed, apiVars>>

\* The function subscribeToRealtime returned when it created channel k:
\* newChannel.unsubscribe(); set({ channel: null, realtimeEnabled: false }).
unsubscribe(k) ==
  /\ k \in 1..Len(chans) /\ Len(chans[k].unsub) < MaxUnsub
  /\ chans' = Unsubscribe(k, "cleanup")
  /\ feed' = DropChannel(feed, k)
  /\ channel' = NoChannel
  /\ UNCHANGED <<storeVars, authVars, viewVars, calls, statsq, apiVars>>

\* unsubscribeFromRealtime: releases the channel the store holds.
unsubscribeFromRealtime ==
  /\ channel # NoChannel /\ Len(chans[channel].unsub) < MaxUnsub
  /\ chans' = Unsubscribe(channel, "unsubscribeFromRealtime")
  /\ feed' = DropChannel(feed, channel)
  /\ channel' = NoChannel
  /\ UNCHANGED <<storeVars, authVars, viewVars, calls, statsq, apiVars>>

\* reset: releases the channel the store holds and sets the initial state.
reset ==
  /\ IF channel # NoChannel
       THEN /\ Len(chans[channel].unsub) < MaxUnsub
            /\ chans' = Unsubscribe(channel, "reset")
            /\ feed' = DropChannel(feed, channel)
       ELSE UNCHANGED <<chans, feed>>
  /\ todos' = <<>> /\ loading' = FALSE /\ error' = NoError
  /\ channel' = NoChannel
  /\ stats' = ZeroStats
  /\ UNCHANGED <<storeVars, authVars, calls, statsq, apiVars>>

\* The callback's switch (payload.eventType).
HandlePayload(list, e) ==
  CASE e.eventType = "INSERT" -> HandleInsert(list, e.row)
    [] e.eventType = "UPDATE" -> HandleUpdate(list, e.row)
    [] e.eventType = "DELETE" -> HandleDelete(list, e.row)
    [] OTHER -> list

\* The events of one row are delivered in commit order; events of
\* distinct rows in any order.
Deliverable(i) ==
  \A j \in 1..(i - 1) : feed[j].ch = feed[i].ch => feed[j].row.id # feed[i].row.id

DropAt(q, i) == SubSeq(q, 1, i - 1) \o SubSeq(q, i + 1, Len(q))

\* The postgres_changes callback runs on the event at place i of the feed:
\* it updates todos and awaits updateStats.
OnPostgresChange(i) ==
  /\ i \in 1..Len(feed) /\ Deliverable(i)
  /\ feed[i].ch \in Subscribed
  /\ CanFetchStats
  /\ todos' = HandlePayload(todos, feed[i])
  /\ feed' = DropAt(feed, i)
  /\ statsq' = SpawnStats
  /\ UNCHANGED <<storeVars, authVars, loading, error, stats, chanVars, calls, apiVars>>

\* A payload without its row: payload.new / payload.old is undefined.
UndefinedRow == Task(0, NoUser, <<>>, <<>>, FALSE)

\* Malformed payloads: an event type the switch does not know, or a known
\* one whose row is missing.
MalformedEvents ==
  {Event(k, t, UndefinedRow) : k \in 1..MaxChannels, t \in {"INSERT", "UPDATE", "DELETE", "TRUNCATE"}}

\* The callback throws a TypeError: todo.id === payload.new.id and
\* todo.id !== payload.old.id read a property of undefined as soon as the
\* list has an entry to compare.
PayloadThrows(list, e) ==
  e.eventType \in {"UPDATE", "DELETE"} /\ e.row = UndefinedRow /\ list # <<>>

\* The list holds an entry that is undefined.
Broken(list) == \E i \in 1..Len(list) : list[i] = UndefinedRow

\* The postgres_changes callback runs on a malformed payload e: the
\* switch runs as for any payload; updateStats is awaited when a case
\* matched and did not throw.
OnMalformedChange(e) ==
  /\ e.ch \in Subscribed
  /\ todos' = HandlePayload(todos, e)
  /\ IF e.eventType \in {"INSERT", "UPDATE", "DELETE"} /\ ~PayloadThrows(todos, e)
       THEN CanFetchStats /\ statsq' = SpawnStats
       ELSE UNCHANGED statsq
  /\ UNCHANGED <<storeVars, authVars, loading, error, stats, chanVars, calls, feed, apiVars>>

\* ------------------------------- another open session of the same user
RemoteDelete(u, id) ==
  /\ FeedHasRoom
  /\ \E old \in Visible(u) :
       /\ old.id = id
       /\ rows' = rows \ {old}
       /\ feed' = Publish("DELETE", old)
  /\ UNCHANGED <<nextId, authVars, viewVars, chanVars, calls, statsq, apiVars>>

\* ------------------------------------------- useAuthStore: login, logout
login(u) ==
  /\ user = NoUser /\ authOp = NoAuthOp
  /\ authLoading' = TRUE /\ authError' = NoErr
  /\ authOp' = [NoAuthOp EXCEPT !.kind = "login", !.phase = "req", !.who = u]
  /\ UNCHANGED <<storeVars, session, user, initVars, viewVars, chanVars, calls, statsq, feed, apiVars>>

logout ==
  /\ DashboardShown /\ authOp = NoAuthOp
  /\ authLoading' = TRUE /\ authError' = NoErr
  /\ authOp' = [NoAuthOp EXCEPT !.kind = "logout", !.phase = "req", !.who = user]
  /\ UNCHANGED <<storeVars, session, user, initVars, viewVars, chanVars, calls, statsq, feed, apiVars>>

\* signInWithPassword / signOut is served by the authentication service.
ServeAuth ==
  /\ authOp.phase = "req"
  /\ \/ authOp' = [authOp EXCEPT !.phase = "resp"]
     \/ authOp' = [authOp EXCEPT !.phase = "resp", !.err = "AuthError"]
  /\ UNCHANGED <<storeVars, session, user, authLoading, authError, initVars, viewVars,
                 chanVars, calls, statsq, feed, apiVars>>

\* login resumes: set({ user, loading: false }), or its catch block.
loginDone ==
  /\ authOp.kind = "login" /\ authOp.phase = "resp"
  /\ authOp' = NoAuthOp
  /\ authLoading' = FALSE
  /\ IF authOp.err = NoErr
       THEN /\ session' = authOp.who /\ user' = authOp.who /\ UNCHANGED authError
       ELSE /\ authError' = authOp.err /\ UNCHANGED <<session, user>>
  /\ UNCHANGED <<storeVars, initVars, viewVars, chanVars, calls, statsq, feed, apiVars>>

\* logout resumes: set({ user: null, loading: false }), or its catch
\* block; Navbar.handleLogout does nothing more to the stores.
logoutDone ==
  /\ authOp.kind = "logout" /\ authOp.phase = "resp"
  /\ authOp' = NoAuthOp
  /\ authLoading' = FALSE
  /\ IF authOp.err = NoErr
       THEN /\ session' = NoUser /\ user' = NoUser /\ UNCHANGED authError
       ELSE /\ authError' = authOp.err /\ UNCHANGED <<session, user>>
  /\ UNCHANGED <<storeVars, initVars, viewVars, chanVars, calls, statsq, feed, apiVars>>

\* ---------------------------------------------- useAuthStore: initialize
\* An initialize() call suspended on authService.getCurrentUser().
InitCall == [phase |-> "req", who |-> NoUser]

InitsInFlight == BagToSet(inits)

\* initialize: set({ loading: true, error: null }) and the session check
\* goes out.  App calls it when it mounts, ProtectedRoute and Dashboard
\* call it while initialized is false.
initialize ==
  /\ listeners + BagCardinality(inits) < MaxInits
  /\ authLoading' = TRUE /\ authError' = NoErr
  /\ inits' = Put(inits, InitCall)
  /\ UNCHANGED <<storeVars, session, user, authOp, initialized, listeners,
                 viewVars, chanVars, calls, statsq, feed, apiVars>>

\* authService.getCurrentUser is served: the user of the stored session,
\* or null when there is none or the request fails.
ServeGetCurrentUser(q) ==
  /\ q \in InitsInFlight /\ q.phase = "req"
  /\ \/ inits' = Swap(inits, q, [q EXCEPT !.phase = "resp", !.who = session])
     \/ inits' = Swap(inits, q, [q EXCEPT !.phase = "resp", !.who = NoUser])
  /\ UNCHANGED <<storeVars, session, user, authLoading, authError, authOp,
                 initialized, listeners, viewVars, chanVars, calls, statsq, feed, apiVars>>

\* initialize resumes: set({ user, loading: false, initialized: true })
\* and a listener is registered with onAuthStateChange.
initializeDone(q) ==
  /\ q \in InitsInFlight /\ q.phase = "resp"
  /\ inits' = Take(inits, q)
  /\ user' = q.who /\ authLoading' = FALSE /\ initialized' = TRUE
  /\ listeners' = listeners + 1
  /\ UNCHANGED <<storeVars, session, authError, authOp,
                 viewVars, chanVars, calls, statsq, feed, apiVars>>

\* ------------------------------------------------------- specifications
\* The gateway calls and their replies.
GatewaySteps ==
  \/ \E c \in InFlight : ServeGetTodos(c)
  \/ \E c \in InFlight : fetchTodosStats(c)
  \/ \E c \in InFlight : ServeFetchStats(c)
  \/ \E c \in InFlight : fetchTodosDone(c)
  \/ \E c \in InFlight : ServeGetUser(c)
  \/ \E c \in InFlight : createTodoInsert(c)
  \/ \E c \in InFlight : ServeInsert(c)
  \/ \E c \in InFlight : createTodoDone(c)
  \/ \E q \in StatsInFlight : ServeGetTodoStats(q)
  \/ \E q \in StatsInFlight : updateStatsDone(q)

\* The operations of the task store of one logged-in user, the delivery
\* of its change feed and the user's other session.
Operations ==
  \/ fetchTodos
  \/ \E t \in TitleInputs, d \in DescInputs : createTodo(t, d)
  \/ \E id \in KnownIds, u \in UpdateInputs : updateTodo(id, u)
  \/ \E id \in KnownIds, b \in OptBool : toggleTodo(id, b)
  \/ \E id \in KnownIds : deleteTodo(id)
  \/ GatewaySteps
  \/ \E c \in InFlight : ServeUpdate(c)
  \/ \E c \in InFlight : updateTodoDone(c)
  \/ \E c \in InFlight : ServeDelete(c)
  \/ \E c \in InFlight : deleteTodoDone(c)
  \/ \E i \in 1..Len(feed) : OnPostgresChange(i)
  \/ \E id \in KnownIds : RemoteDelete(user, id)

\* The task store of one logged-in user; the dashboard subscribes to the
\* change feed at some point.
Next ==
  \/ Operations
  \/ subscribeToRealtime

Spec == Init /\ [][Next]_vars

\* The dashboard of user A once its effect has subscribed to the change
\* feed, before any task operation: from here on every committed change
\* of A's rows is published to the channel.
InitSynced ==
  /\ rows = {}
  /\ nextId = 1
  /\ session = "A"
  /\ user = "A"
  /\ authLoading = FALSE
  /\ authError = NoErr
  /\ authOp = NoAuthOp
  /\ initialized = TRUE
  /\ listeners = 1
  /\ inits = EmptyBag
  /\ todos = <<>>
  /\ loading = FALSE
  /\ error = NoError
  /\ stats = ZeroStats
  /\ channel = 1
  /\ chans = <<Channel("A")>>
  /\ calls = EmptyBag
  /\ statsq = EmptyBag
  /\ feed = <<>>
  /\ http = EmptyBag
  /\ read = NoRead

SpecSynced == InitSynced /\ [][Operations]_vars

\* The subscribed dashboard receiving malformed payloads as well; the
\* behaviour is followed until the list holds an undefined entry.
NextMalformed ==
  \/ ~Broken(todos) /\ Operations
  \/ \E e \in MalformedEvents : ~Broken(todos) /\ OnMalformedChange(e)

SpecMalformed == InitSynced /\ [][NextMalformed]_vars

\* The session: nobody is logged in when the application has loaded;
\* users log in, work on the dashboard and log out.
InitSession ==
  /\ rows = {}
  /\ nextId = 1
  /\ session = NoUser
  /\ user = NoUser
  /\ authLoading = FALSE
  /\ authError = NoErr
  /\ authOp = NoAuthOp
  /\ initialized = TRUE
  /\ listeners = 1
  /\ inits = EmptyBag
  /\ todos = <<>>
  /\ loading = FALSE
  /\ error = NoError
  /\ stats = ZeroStats
  /\ channel = NoChannel
  /\ chans = <<>>
  /\ calls = EmptyBag
  /\ statsq = EmptyBag
  /\ feed = <<>>
  /\ http = EmptyBag
  /\ read = NoRead

NextSession ==
  \/ \E u \in Users : login(u)
  \/ logout
  \/ ServeAuth
  \/ loginDone
  \/ logoutDone
  \/ fetchTodos
  \/ \E t \in TitleInputs, d \in DescInputs : createTodo(t, d)
  \/ GatewaySteps

SpecSession == InitSession /\ [][NextSession]_vars

\* The application is loaded in a browser that holds a stored session or
\* none: the session check has not run and no listener is registered.
InitLoad ==
  /\ rows = {}
  /\ nextId = 1
  /\ session \in Users \cup {NoUser}
  /\ user = NoUser
  /\ authLoading = FALSE
  /\ authError = NoErr
  /\ authOp = NoAuthOp
  /\ initialized = FALSE
  /\ listeners = 0
  /\ inits = EmptyBag
  /\ todos = <<>>
  /\ loading = FALSE
  /\ error = NoError
  /\ stats = ZeroStats
  /\ channel = NoChannel
  /\ chans = <<>>
  /\ calls = EmptyBag
  /\ statsq = EmptyBag
  /\ feed = <<>>
  /\ http = EmptyBag
  /\ read = NoRead

NextLoad ==
  \/ initialize
  \/ \E q \in InitsInFlight : ServeGetCurrentUser(q)
  \/ \E q \in InitsInFlight : initializeDone(q)
  \/ \E u \in Users : login(u)
  \/ logout
  \/ ServeAuth
  \/ loginDone
  \/ logoutDone
  \/ fetchTodos
  \/ \E c \in InFlight : ServeGetTodos(c)
  \/ \E c \in InFlight : fetchTodosStats(c)
  \/ \E c \in InFlight : ServeFetchStats(c)
  \/ \E c \in InFlight : fetchTodosDone(c)

SpecLoad == InitLoad /\ [][NextLoad]_vars

\* The realtime subscription of one logged-in user: the channel is opened
\* and released through every entry point of the store while tasks are
\* created and their events are delivered.
NextRealtime ==
  \/ subscribeToRealtime
  \/ \E k \in 1..Len(chans) : unsubscribe(k)
  \/ unsubscribeFromRealtime
  \/ reset
  \/ \E t \in TitleInputs, d \in DescInputs : createTodo(t, d)
  \/ \E c \in InFlight : ServeGetUser(c)
  \/ \E c \in InFlight : createTodoInsert(c)
  \/ \E c \in InFlight : ServeInsert(c)
  \/ \E c \in InFlight : createTodoDone(c)
  \/ \E q \in StatsInFlight : ServeGetTodoStats(q)
  \/ \E q \in StatsInFlight : updateStatsDone(q)
  \/ \E i \in 1..Len(feed) : OnPostgresChange(i)

SpecRealtime == Init /\ [][NextRealtime]_vars

\* The statistics of a table that already holds rows: the dashboard of
\* user A opens on a table of up to MaxRows rows of A, each completed or
\* not, beside at most one row of user B, and fetches.
StoredRows(n, done) ==
  {Task(i, "A", <<"a">>, <<>>, i \in done) : i \in 1..n}

OthersRows(n) ==
  {{}} \cup {{Task(n + 1, "B", <<"a">>, <<>>, b)} : b \in BOOLEAN}

InitStats ==
  /\ \E n \in 0..MaxRows : \E done \in SUBSET (1..n) : \E other \in OthersRows(n) :
       /\ rows = StoredRows(n, done) \cup other
       /\ nextId = n + 2
  /\ session = "A"
  /\ user = "A"
  /\ authLoading = FALSE
  /\ authError = NoErr
  /\ authOp = NoAuthOp
  /\ initialized = TRUE
  /\ listeners = 1
  /\ inits = EmptyBag
  /\ todos = <<>>
  /\ loading = FALSE
  /\ error = NoError
  /\ stats = ZeroStats
  /\ channel = NoChannel
  /\ chans = <<>>
  /\ calls = EmptyBag
  /\ statsq = EmptyBag
  /\ feed = <<>>
  /\ http = EmptyBag
  /\ read = NoRead

NextStats ==
  \/ fetchTodos
  \/ \E c \in InFlight : ServeGetTodos(c)
  \/ \E c \in InFlight : fetchTodosStats(c)
  \/ \E c \in InFlight : ServeFetchStats(c)
  \/ \E c \in InFlight : fetchTodosDone(c)

SpecStats == InitStats /\ [][NextStats]_vars

\* ------------------------------------------ useTodoStore: the selectors
Filters == {"all", "completed", "pending"}

\* Mutant of FilteredTodos: 'pending' selects with the predicate of
\* 'completed'.
FilteredByCompleted(list, filter) ==
  IF filter \in {"completed", "pending"}
    THEN SelectSeq(list, LAMBDA todo : todo.completed)
    ELSE list

\* What getFilteredTodos returns: todos.filter(...) by the switch on filter.
FilteredTodos(list, filter) ==
  CASE filter = "completed" -> SelectSeq(list, LAMBDA todo : todo.completed)
    [] filter = "pending" -> SelectSeq(list, LAMBDA todo : ~todo.completed)
    [] OTHER -> list

\* getFilteredTodos(filter): reads todos with get() and returns.
getFilteredTodos(filter) ==
  /\ read' = [op |-> "filter", filter |-> filter, term |-> <<>>, threw |-> FALSE,
              result |-> FilteredTodos(todos, filter)]
  /\ UNCHANGED <<storeVars, authVars, viewVars, chanVars, calls, statsq, feed, http>>

\* The value of a description column that is NULL.
NullText == <<"null">>

\* String.prototype.toLowerCase over the letters that occur.
LowerChar(ch) == IF ch = "A" THEN "a" ELSE IF ch = "B" THEN "b" ELSE ch
toLowerCase(s) == [i \in 1..Len(s) |-> LowerChar(s[i])]

\* String.prototype.includes
includes(s, t) == \E i \in 0..(Len(s) - Len(t)) : SubSeq(s, i + 1, i + Len(t)) = t

\* !searchTerm || searchTerm.trim().length === 0
TermBlank(searchTerm) == searchTerm = <<>> \/ Len(trim(searchTerm)) = 0

\* const term = searchTerm.toLowerCase().trim()
SearchTerm(searchTerm) == trim(toLowerCase(searchTerm))

\* The filter callback reads todo.description.toLowerCase() when the title
\* does not match: a TypeError when the description is null.
SearchThrows(list, searchTerm) ==
  /\ ~TermBlank(searchTerm)
  /\ \E i \in 1..Len(list) :
       /\ ~includes(toLowerCase(list[i].title), SearchTerm(searchTerm))
       /\ list[i].description = NullText

\* What searchTodos returns when it returns.
SearchedTodos(list, searchTerm) ==
  IF TermBlank(searchTerm) THEN list
  ELSE SelectSeq(list, LAMBDA todo :
         \/ includes(toLowerCase(todo.title), SearchTerm(searchTerm))
         \/ includes(toLowerCase(todo.description), SearchTerm(searchTerm)))

\* searchTodos(searchTerm): reads todos with get() and returns or throws.
searchTodos(searchTerm) ==
  /\ read' = [op |-> "search", filter |-> "all", term |-> searchTerm,
              threw |-> SearchThrows(todos, searchTerm),
              result |-> IF SearchThrows(todos, searchTerm) THEN <<>>
                         ELSE SearchedTodos(todos, searchTerm)]
  /\ UNCHANGED <<storeVars, authVars, viewVars, chanVars, calls, statsq, feed, http>>

\* The selectors over a table that already holds rows: up to MaxShown rows
\* of user A, whose description column may be NULL (the column is nullable
\* and the table is open to every client of the project), are fetched into
\* the Collection and read through the selectors.
ShownTexts ==
  {[title |-> <<"a">>, description |-> <<>>],
   [title |-> <<"A">>, description |-> <<"b">>],
   [title |-> <<"b">>, description |-> NullText]}
SearchTerms == {<<>>, <<" ">>, <<"a">>, <<"A">>, <<"B">>, <<"a", " ">>}

ShownRows ==
  UNION {{{Task(i, "A", f[i].text.title, f[i].text.description, f[i].completed) : i \in 1..n} :
            f \in [1..n -> [text : ShownTexts, completed : BOOLEAN]]} : n \in 0..MaxShown}

InitSelect ==
  /\ rows \in ShownRows
  /\ nextId = Cardinality(rows) + 1
  /\ session = "A"
  /\ user = "A"
  /\ authLoading = FALSE
  /\ authError = NoErr
  /\ authOp = NoAuthOp
  /\ initialized = TRUE
  /\ listeners = 1
  /\ inits = EmptyBag
  /\ todos = <<>>
  /\ loading = FALSE
  /\ error = NoError
  /\ stats = ZeroStats
  /\ channel = NoChannel
  /\ chans = <<>>
  /\ calls = EmptyBag
  /\ statsq = EmptyBag
  /\ feed = <<>>
  /\ http = EmptyBag
  /\ read = NoRead

NextSelect ==
  \/ fetchTodos
  \/ \E c \in InFlight : ServeGetTodos(c)
  \/ \E c \in InFlight : fetchTodosStats(c)
  \/ \E c \in InFlight : ServeFetchStats(c)
  \/ \E c \in InFlight : fetchTodosDone(c)
  \/ \E filter \in Filters : getFilteredTodos(filter)
  \/ \E searchTerm \in SearchTerms : searchTodos(searchTerm)

SpecSelect == InitSelect /\ [][NextSelect]_vars

\* ------------------------------------------------- backend: /api/todos
\* The Authorization header of a request: none, 'Bearer ' with nothing
\* after it, a token the Authentication Service does not accept, or the
\* access token of a user.
Credentials == {"none", "empty", "invalid"} \cup Users

ApiOps == {"getTodos", "getTodoById", "createTodo", "updateTodo", "toggleTodo", "deleteTodo"}

\* The routes with an :id parameter, and those that read req.body.
HasIdParam(op) == op \in {"getTodoById", "updateTodo", "toggleTodo", "deleteTodo"}
HasBody(op) == op \in {"createTodo", "updateTodo"}

\* An :id that uuidRegex does not match; every id in Ids is well formed.
BadId == 0
ApiIds == {BadId} \cup Ids

\* req.body: the optional keys title, description, completed and a
\* user_id the client may put there.
EmptyBody ==
  [title |-> AbsentStr, description |-> AbsentStr, completed |-> AbsentBool, user_id |-> NoUser]

ApiBodies ==
  [title : {AbsentStr} \cup {[p |-> "value", v |-> s] : s \in TitleInputs},
   description : {AbsentStr},
   completed : {AbsentBool, [p |-> "value", v |-> TRUE]},
   user_id : Users \cup {NoUser}]

\* A request the backend is handling.
\*   phase   "auth": authMiddleware is to run; "verify" / "verified": its
\*           getUser(token) is on the wire / has answered; "select" /
\*           "selected": toggleTodo's first query; "query" / "queried": the
\*           controller's query; "done": the response was written
\*   user    req.user.id;  fields  the columns the query writes
\*   status  the status of the response;  data  the rows of the last reply
\*   err     the error of the last reply;  queries  store queries issued
ApiCall(op, cred, id, body) ==
  [op |-> op, cred |-> cred, id |-> id, body |-> body, phase |-> "auth",
   user |-> NoUser, fields |-> NoFields, status |-> 0, err |-> NoErr,
   data |-> <<>>, queries |-> 0]

ApiInFlight == BagToSet(http)

\* A client sends a request to /api/todos.
Request(op, cred, id, body) ==
  /\ BagCardinality(http) < MaxHttp
  /\ http' = Put(http, ApiCall(op, cred,
                               IF HasIdParam(op) THEN id ELSE BadId,
                               IF HasBody(op) THEN body ELSE EmptyBody))
  /\ UNCHANGED <<storeVars, authVars, viewVars, chanVars, calls, statsq, feed, read>>

\* res.status(s).json(...)
Respond(r, s) == [r EXCEPT !.phase = "done", !.status = s]

\* authMiddleware up to its await: no header or an empty token is
\* answered with 401, else the token goes to supabase.auth.getUser.
authMiddleware(r) ==
  /\ r \in ApiInFlight /\ r.phase = "auth"
  /\ http' = Swap(http, r, IF r.cred \in {"none", "empty"}
                             THEN Respond(r, 401)
                             ELSE [r EXCEPT !.phase = "verify"])
  /\ UNCHANGED <<storeVars, authVars, viewVars, chanVars, calls, statsq, feed, read>>

\* supabase.auth.getUser(token) is served: the user of a valid token, or
\* an error and no user (the token is not valid, or the service failed).
ServeGetUserOfToken(r) ==
  /\ r \in ApiInFlight /\ r.phase = "verify"
  /\ \/ /\ r.cred \in Users
        /\ http' = Swap(http, r, [r EXCEPT !.phase = "verified", !.user = r.cred])
     \/ http' = Swap(http, r, [r EXCEPT !.phase = "verified", !.err = "AuthError"])
  /\ UNCHANGED <<storeVars, authVars, viewVars, chanVars, calls, statsq, feed, read>>

\* Mutant of MiddlewareRejects: the two checks are gone.
MiddlewareAccepts(err, usr) == FALSE

\* if (error) ... 401; if (!user) ... 401
MiddlewareRejects(err, usr) == err # NoErr \/ usr = NoUser

\* The title checks of createTodo and updateTodo: !title ||
\* title.trim() === '' and cleanTitle.length > 255.
ApiTitleLimit == 255
TitleRefused(title) == TitleMissing(title) \/ Len(trim(title)) > ApiTitleLimit

\* The controller's checks before its first query: the 400 responses.
BadRequest(r) ==
  \/ HasIdParam(r.op) /\ r.id = BadId
  \/ r.op = "createTodo" /\ (~Defined(r.body.title) \/ TitleRefused(r.body.title.v))
  \/ r.op = "updateTodo" /\ Defined(r.body.title) /\ TitleRefused(r.body.title.v)
  \/ r.op = "updateTodo" /\ CleanUpdates(r.body) = NoFields

\* The columns the controller's query writes: { title, description,
\* user_id } of createTodo, updates of updateTodo.
ApiFields(r) ==
  IF r.op = "createTodo"
    THEN [title |-> [p |-> "value", v |-> trim(r.body.title.v)],
          description |-> [p |-> "value",
                           v |-> IF Defined(r.body.description)
                                   THEN trim(r.body.description.v) ELSE <<>>],
          completed |-> AbsentBool]
  ELSE IF r.op = "updateTodo" THEN CleanUpdates(r.body)
  ELSE NoFields

\* authMiddleware resumes: 401, or req.user = user and next(): the
\* controller runs to its first await, which is a 400 or a query.
authMiddlewareDone(r) ==
  /\ r \in ApiInFlight /\ r.phase = "verified"
  /\ http' = Swap(http, r,
       IF MiddlewareRejects(r.err, r.user) THEN Respond(r, 401)
       ELSE IF BadRequest(r) THEN Respond(r, 400)
       ELSE [r EXCEPT !.phase = IF r.op = "toggleTodo" THEN "select" ELSE "query",
                      !.fields = ApiFields(r)])
  /\ UNCHANGED <<storeVars, authVars, viewVars, chanVars, calls, statsq, feed, read>>

\* Mutant of Owned: the query forgets .eq('user_id', userId).
OwnedById(id, userId) == {x \in rows : x.id = id}

\* .eq('id', id).eq('user_id', userId): the backend's client holds the
\* service key, so this filter alone selects the rows.
Owned(id, userId) == {x \in rows : x.id = id /\ x.user_id = userId}

\* .eq('user_id', userId) of getTodos.
OwnedBy(userId) == {x \in rows : x.user_id = userId}

\* toggleTodo's select('completed') ... .single() is served: the row, the
\* error .single() reports for no row, or a failure of the store.
ServeSelectCompleted(r) ==
  /\ r \in ApiInFlight /\ r.phase = "select"
  /\ LET hit == Owned(r.id, r.user)
         q == [r EXCEPT !.phase = "selected", !.queries = @ + 1]
     IN \/ /\ hit # {}
           /\ http' = Swap(http, r, [q EXCEPT !.data = <<CHOOSE x \in hit : TRUE>>])
        \/ /\ hit = {}
           /\ http' = Swap(http, r, [q EXCEPT !.err = "PGRST116"])
        \/ http' = Swap(http, r, [q EXCEPT !.err = "StoreError"])
  /\ UNCHANGED <<storeVars, authVars, viewVars, chanVars, calls, statsq, feed, read>>

\* toggleTodo resumes: 500 on fetchError, 404 on no row, else the update
\* of completed to !currentTodo.completed goes out.
toggleTodoUpdate(r) ==
  /\ r \in ApiInFlight /\ r.phase = "selected"
  /\ http' = Swap(http, r,
       IF r.err # NoErr THEN Respond(r, 500)
       ELSE IF r.data = <<>> THEN Respond(r, 404)
       ELSE [r EXCEPT !.phase = "query", !.data = <<>>,
                      !.fields = [NoFields EXCEPT
                                    !.completed = [p |-> "value", v |-> ~r.data[1].completed]]])
  /\ UNCHANGED <<storeVars, authVars, viewVars, chanVars, calls, statsq, feed, read>>

\* The controller's query is served.
ServeQuery(r) ==
  /\ r \in ApiInFlight /\ r.phase = "query"
  /\ LET hit == Owned(r.id, r.user)
         q == [r EXCEPT !.phase = "queried", !.queries = @ + 1]
     IN \/ /\ r.op = "getTodos"
           /\ http' = Swap(http, r, [q EXCEPT !.data = OrderDesc(OwnedBy(r.user))])
           /\ UNCHANGED <<storeVars, feed>>
        \/ /\ r.op = "getTodoById" /\ hit # {}
           /\ http' = Swap(http, r, [q EXCEPT !.data = <<CHOOSE x \in hit : TRUE>>])
           /\ UNCHANGED <<storeVars, feed>>
        \/ /\ r.op = "createTodo" /\ nextId <= MaxIds
           /\ LET row == Task(nextId, r.user, r.fields.title.v, r.fields.description.v, FALSE)
              IN /\ rows' = rows \cup {row}
                 /\ nextId' = nextId + 1
                 /\ feed' = Publish("INSERT", row)
                 /\ http' = Swap(http, r, [q EXCEPT !.data = <<row>>])
        \/ /\ r.op \in {"updateTodo", "toggleTodo"} /\ hit # {}
           /\ LET old == CHOOSE x \in hit : TRUE
                  new == ApplyFields(old, r.fields)
              IN /\ rows' = (rows \ {old}) \cup {new}
                 /\ feed' = Publish("UPDATE", new)
                 /\ http' = Swap(http, r, [q EXCEPT !.data = <<new>>])
           /\ UNCHANGED nextId
        \/ /\ r.op = "deleteTodo" /\ hit # {}
           /\ rows' = rows \ hit
           /\ feed' = Publish("DELETE", CHOOSE x \in hit : TRUE)
           /\ http' = Swap(http, r, [q EXCEPT !.data = <<CHOOSE x \in hit : TRUE>>])
           /\ UNCHANGED nextId
        \/ /\ HasIdParam(r.op) /\ hit = {}
           /\ http' = Swap(http, r, [q EXCEPT !.err = "PGRST116"])
           /\ UNCHANGED <<storeVars, feed>>
        \/ /\ http' = Swap(http, r, [q EXCEPT !.err = "StoreError"])
           /\ UNCHANGED <<storeVars, feed>>
  /\ UNCHANGED <<authVars, viewVars, chanVars, calls, statsq, read>>

\* The status the controller answers the reply of its query with: 500 on
\* an error, 404 when an :id route got no row, else 201 / 200.
ControllerStatus(op, err, data) ==
  IF err # NoErr THEN 500
  ELSE IF HasIdParam(op) /\ data = <<>> THEN 404
  ELSE IF op = "createTodo" THEN 201
  ELSE 200

\* The controller resumes and writes the response.
controllerDone(r) ==
  /\ r \in ApiInFlight /\ r.phase = "queried"
  /\ http' = Swap(http, r, Respond(r, ControllerStatus(r.op, r.err, r.data)))
  /\ UNCHANGED <<storeVars, authVars, viewVars, chanVars, calls, statsq, feed, read>>

\* The client has the response.
ResponseReceived(r) ==
  /\ r \in ApiInFlight /\ r.phase = "done"
  /\ http' = Take(http, r)
  /\ UNCHANGED <<storeVars, authVars, viewVars, chanVars, calls, statsq, feed, read>>

\* The backend's handling of the requests in flight.
NextApi ==
  \/ \E op \in ApiOps, cred \in Credentials, id \in ApiIds, body \in ApiBodies :
       Request(op, cred, id, body)
  \/ \E r \in ApiInFlight : authMiddleware(r)
  \/ \E r \in ApiInFlight : ServeGetUserOfToken(r)
  \/ \E r \in ApiInFlight : authMiddlewareDone(r)
  \/ \E r \in ApiInFlight : ServeSelectCompleted(r)
  \/ \E r \in ApiInFlight : toggleTodoUpdate(r)
  \/ \E r \in ApiInFlight : ServeQuery(r)
  \/ \E r \in ApiInFlight : controllerDone(r)
  \/ \E r \in ApiInFlight : ResponseReceived(r)

SpecApi == Init /\ [][NextApi]_vars

\* ----------------------------------------------- the length of the texts
\* maxLength={100} of the title input and the 500 characters the form
\* allows a description.
TitleLimit == 100
DescriptionLimit == 500

\* 'a'.repeat(n)
Repeat(ch, n) == [i \in 1..n |-> ch]

\* Titles and descriptions at and beyond the limits, handed to the gateway
\* and to the HTTP API by a caller that is not the form.
LongTitles == {Repeat("a", n) : n \in {TitleLimit + 1, ApiTitleLimit + 1}}
LongDescriptions == {Repeat("a", n) : n \in {0, DescriptionLimit + 1}}

NextLimits ==
  \/ \E t \in LongTitles, d \in LongDescriptions : createTodo(t, d)
  \/ \E c \in InFlight : ServeGetUser(c)
  \/ \E c \in InFlight : createTodoInsert(c)
  \/ \E c \in InFlight : ServeInsert(c)
  \/ \E c \in InFlight : createTodoDone(c)
  \/ \E q \in StatsInFlight : ServeGetTodoStats(q)
  \/ \E q \in StatsInFlight : updateStatsDone(q)
  \/ \E t \in LongTitles, d \in LongDescriptions :
       Request("createTodo", "A", BadId,
               [EmptyBody EXCEPT !.title = [p |-> "value", v |-> t],
                                 !.description = [p |-> "value", v |-> d]])
  \/ \E r \in ApiInFlight : authMiddleware(r)
  \/ \E r \in ApiInFlight : ServeGetUserOfToken(r)
  \/ \E r \in ApiInFlight : authMiddlewareDone(r)
  \/ \E r \in ApiInFlight : ServeQuery(r)
  \/ \E r \in ApiInFlight : controllerDone(r)
  \/ \E r \in ApiInFlight : ResponseReceived(r)

SpecLimits == Init /\ [][NextLimits]_vars

\* ------------------------------ useAuthStore: signup, auth-state listener
\* What the caller awaiting login / signup / logout gets back: the value
\* the action returns, or the error its catch block throws again.
AuthSettles(err, value) ==
  IF err = NoErr THEN [threw |-> FALSE, value |-> value]
                 ELSE [threw |-> TRUE, value |-> err]

VerifyEmail == "Por favor verifica tu email para activar tu cuenta"

SignupRecordsNothing(err, confirmed, held) == held

\* The error the store holds after signup resumes: error.message in the
\* catch block, the verification notice when no session came back.
SignupRecords(err, confirmed, held) ==
  IF err # NoErr THEN err
  ELSE IF ~confirmed THEN VerifyEmail
  ELSE held

\* signup: set({ loading: true, error: null }) and authService.signup
\* goes out.
signup(u) ==
  /\ user = NoUser /\ authOp = NoAuthOp
  /\ authLoading' = TRUE /\ authError' = NoErr
  /\ authOp' = [NoAuthOp EXCEPT !.kind = "signup", !.phase = "req", !.who = u]
  /\ UNCHANGED <<storeVars, session, user, initVars, viewVars, chanVars, calls, statsq, feed, apiVars>>

\* supabase.auth.signUp answers without a session: the address has to be
\* confirmed first.
ServeSignupUnconfirmed ==
  /\ authOp.kind = "signup" /\ authOp.phase = "req"
  /\ authOp' = [authOp EXCEPT !.phase = "unconfirmed"]
  /\ UNCHANGED <<storeVars, session, user, authLoading, authError, initVars, viewVars,
                 chanVars, calls, statsq, feed, apiVars>>

\* signup resumes: without a session set({ loading: false, error }),
\* with one set({ user, loading: false }), or its catch block.
signupDone ==
  /\ authOp.kind = "signup" /\ authOp.phase \in {"resp", "unconfirmed"}
  /\ authOp' = NoAuthOp
  /\ authLoading' = FALSE
  /\ authError' = SignupRecords(authOp.err, authOp.phase = "resp", authError)
  /\ IF authOp.err = NoErr /\ authOp.phase = "resp"
       THEN session' = authOp.who /\ user' = authOp.who
       ELSE UNCHANGED <<session, user>>
  /\ UNCHANGED <<storeVars, initVars, viewVars, chanVars, calls, statsq, feed, apiVars>>

\* The listener registered by initialize runs on an auth-state event,
\* which carries the session the client holds now or, after a sign-out
\* somewhere else, none: set({ user: session?.user ?? null }).
OnAuthStateChange(s) ==
  /\ listeners > 0
  /\ s \in {session, NoUser}
  /\ session' = s /\ user' = s
  /\ UNCHANGED <<storeVars, authLoading, authError, authOp, initVars, viewVars,
                 chanVars, calls, statsq, feed, apiVars>>

\* The session store alone: the session check, login, signup and logout
\* with their replies, and the auth-state events.
NextAuth ==
  \/ initialize
  \/ \E q \in InitsInFlight : ServeGetCurrentUser(q)
  \/ \E q \in InitsInFlight : initializeDone(q)
  \/ \E u \in Users : login(u)
  \/ \E u \in Users : signup(u)
  \/ logout
  \/ ServeAuth
  \/ ServeSignupUnconfirmed
  \/ loginDone
  \/ signupDone
  \/ logoutDone
  \/ \E s \in Users \cup {NoUser} : OnAuthStateChange(s)

SpecAuth == InitLoad /\ [][NextAuth]_vars

\* ----------------------------------------------- TaskList: what is shown
\* What getDisplayedTodos returns: getFilteredTodos(filter), replaced by
\* searchTodos(searchTerm) when searchTerm.trim() is not empty.
DisplayedTodos(list, filter, searchTerm) ==
  IF Len(trim(searchTerm)) # 0 THEN SearchedTodos(list, searchTerm)
  ELSE FilteredTodos(list, filter)

\* TaskList renders: getDisplayedTodos() with the filter and the search
\* term it holds; the render throws when searchTodos does.
getDisplayedTodos(filter, searchTerm) ==
  /\ read' = [op |-> "display", filter |-> filter, term |-> searchTerm,
              threw |-> Len(trim(searchTerm)) # 0 /\ SearchThrows(todos, searchTerm),
              result |-> IF Len(trim(searchTerm)) # 0 /\ SearchThrows(todos, searchTerm)
                           THEN <<>>
                           ELSE DisplayedTodos(todos, filter, searchTerm)]
  /\ UNCHANGED <<storeVars, authVars, viewVars, chanVars, calls, statsq, feed, http>>

\* What the user has typed into the search box.
TypedTerms == {<<>>, <<" ">>, <<"a">>, <<"B">>}

\* The task list over a table that already holds rows: they are fetched
\* and rendered under every filter and search term.
NextDisplay ==
  \/ fetchTodos
  \/ \E c \in InFlight : ServeGetTodos(c)
  \/ \E c \in InFlight : fetchTodosStats(c)
  \/ \E c \in InFlight : ServeFetchStats(c)
  \/ \E c \in InFlight : fetchTodosDone(c)
  \/ \E filter \in Filters, searchTerm \in TypedTerms : getDisplayedTodos(filter, searchTerm)

SpecDisplay == InitSelect /\ [][NextDisplay]_vars

\* The subscribed dashboard of user A until it is reset: operations are
\* started while the store holds its channel, reset() releases it at any
\* moment, and the calls in flight at that moment run to their end.  In
\* these behaviours the store holds no channel exactly when it has been
\* reset and nothing was started since.
NextReset ==
  \/ channel # NoChannel /\ fetchTodos
  \/ channel # NoChannel /\ \E t \in TitleInputs, d \in DescInputs : createTodo(t, d)
  \/ channel # NoChannel /\ \E id \in KnownIds, b \in OptBool : toggleTodo(id, b)
  \/ channel # NoChannel /\ \E id \in KnownIds : deleteTodo(id)
  \/ reset
  \/ \E c \in InFlight : ServeGetTodos(c)
  \/ \E c \in InFlight : fetchTodosStats(c)
  \/ \E c \in InFlight : ServeFetchStats(c)
  \/ \E c \in InFlight : fetchTodosDone(c)
  \/ \E c \in InFlight : ServeGetUser(c)
  \/ \E c \in InFlight : createTodoInsert(c)
  \/ \E c \in InFlight : ServeInsert(c)
  \/ \E c \in InFlight : createTodoDone(c)
  \/ \E c \in InFlight : ServeUpdate(c)
  \/ \E c \in InFlight : updateTodoDone(c)
  \/ \E c \in InFlight : ServeDelete(c)
  \/ \E c \in InFlight : deleteTodoDone(c)
  \/ \E q \in StatsInFlight : ServeGetTodoStats(q)
  \/ \E q \in StatsInFlight : updateStatsDone(q)
  \/ \E i \in 1..Len(feed) : OnPostgresChange(i)

SpecReset == InitSynced /\ [][NextReset]_vars

\* -------------------------------- PATCH /api/todos/:id/toggle, concurrent
\* The backend holds one pending task of user A, and clients send up
\* to MaxToggles toggle requests for it, which the server handles
\* interleaved at its awaits; the responses are kept.
InitToggle ==
  /\ rows = {Task(1, "A", <<"a">>, <<>>, FALSE)}
  /\ nextId = 2
  /\ session = NoUser
  /\ user = NoUser
  /\ authLoading = FALSE
  /\ authError = NoErr
  /\ authOp = NoAuthOp
  /\ initialized = FALSE
  /\ listeners = 0
  /\ inits = EmptyBag
  /\ todos = <<>>
  /\ loading = FALSE
  /\ error = NoError
  /\ stats = ZeroStats
  /\ channel = NoChannel
  /\ chans = <<>>
  /\ calls = EmptyBag
  /\ statsq = EmptyBag
  /\ feed = <<>>
  /\ http = EmptyBag
  /\ read = NoRead

\* router.patch('/:id/toggle', toggleTodo): a toggle request arrives.
PatchToggle(cred, id) ==
  /\ BagCardinality(http) < MaxToggles
  /\ http' = Put(http, ApiCall("toggleTodo", cred, id, EmptyBody))
  /\ UNCHANGED <<storeVars, authVars, viewVars, chanVars, calls, statsq, feed, read>>

NextToggle ==
  \/ \E cred \in Users : PatchToggle(cred, 1)
  \/ \E r \in ApiInFlight : authMiddleware(r)
  \/ \E r \in ApiInFlight : ServeGetUserOfToken(r)
  \/ \E r \in ApiInFlight : authMiddlewareDone(r)
  \/ \E r \in ApiInFlight : ServeSelectCompleted(r)
  \/ \E r \in ApiInFlight : toggleTodoUpdate(r)
  \/ \E r \in ApiInFlight : ServeQuery(r)
  \/ \E r \in ApiInFlight : controllerDone(r)

SpecToggle == InitToggle /\ [][NextToggle]_vars

\* ------------------------------------------ Dashboard: the realtime effect
\* Mutant of DashboardCleanup: the store forgets the channel without
\* unsubscribing it.
CleanupForgetsChannel ==
  /\ channel # NoChannel /\ ~DashboardShown
  /\ channel' = NoChannel
  /\ UNCHANGED <<storeVars, authVars, viewVars, chans, calls, statsq, feed, apiVars>>

\* The cleanup of the Dashboard's realtime effect: React runs it when
\* ProtectedRoute stops rendering the Dashboard (spinner or redirect); it
\* calls the function subscribeToRealtime returned.  The effect itself,
\* if (initialized && user) subscribeToRealtime(), is the action
\* subscribeToRealtime.  The re-run for a changed user object of a mounted
\* Dashboard, this cleanup followed at once by the effect, is left out.
DashboardCleanup ==
  /\ channel # NoChannel /\ ~DashboardShown
  /\ unsubscribe(channel)

\* The application as its components drive the stores: the session
\* store's operations and events, and the Dashboard's realtime effect and
\* cleanup, which are the only callers of the subscription.
NextFollow ==
  \/ initialize
  \/ \E q \in InitsInFlight : ServeGetCurrentUser(q)
  \/ \E q \in InitsInFlight : initializeDone(q)
  \/ \E u \in Users : login(u)
  \/ logout
  \/ ServeAuth
  \/ loginDone
  \/ logoutDone
  \/ \E s \in Users \cup {NoUser} : OnAuthStateChange(s)
  \/ subscribeToRealtime
  \/ DashboardCleanup

\* React runs an effect after the commit that mounted the Dashboard and
\* its cleanup in the commit that unmounts it: neither is postponed
\* forever while it stays due.
SpecFollow ==
  /\ InitLoad /\ [][NextFollow]_vars
  /\ WF_vars(subscribeToRealtime)
  /\ WF_vars(DashboardCleanup)

\* ================================================================ claims
\* c's suspended call returns in this step (c leaves the bag as it was).
Resumes(c) == CopiesIn(c, calls') < CopiesIn(c, calls)

\* The event at place i of the feed is handed to the callback in this step.
Delivered(i) == i \in 1..Len(feed) /\ feed' = DropAt(feed, i)

\* The gateway's verdict on the reply c holds.
Outcome(c) ==
  CASE c.kind = "update" -> UpdateOutcome(c.err, c.data)
    [] c.kind = "delete" -> DeleteOutcome(c.err, c.matched)
    [] OTHER -> c.err

\* c is a create, update (toggle) or delete whose gateway call rejects.
Rejected(c) ==
  /\ c.kind \in {"create", "update", "delete"}
  /\ \/ c.phase = "gotUser" /\ (c.err # NoError \/ c.uid = NoUser)
     \/ c.phase = "resp" /\ Outcome(c) # NoError

Succeeds(c) ==
  /\ c.kind \in {"create", "update", "delete"}
  /\ c.phase = "resp" /\ Outcome(c) = NoError

\* C1: in every reachable state the Collection holds at most one entry per
\* task id.
NoDuplicateIds ==
  \A i, j \in 1..Len(todos) : i # j => todos[i].id # todos[j].id

\* C2: whenever every operation has completed (no gateway call and no
\* statistics fetch is in flight) the Statistics are the aggregate of the
\* Collection: total, completed, pending and completionRate.
StatsMatchCollection ==
  (calls = EmptyBag /\ statsq = EmptyBag) => stats = StatsOf(todos)

\* C3: a create, update, toggle or delete whose gateway call rejects applies
\* nothing: none of its steps, from the call to the catch block, changes
\* the Collection or the Statistics, and the catch block records the error
\* it re-raises and ends loading.
FailedMutationLeavesState ==
  [][/\ \A c \in InFlight :
          (c.kind \in {"create", "update", "delete"} /\ Resumes(c) /\ ~Succeeds(c))
            => (todos' = todos /\ stats' = stats)
     /\ \A c \in InFlight :
          (Rejected(c) /\ Resumes(c))
            => (/\ error' # NoError
                /\ error'.op = c.kind \o "Todo"
                /\ loading' = FALSE)
     /\ (BagCardinality(calls') > BagCardinality(calls))
            => (todos' = todos /\ stats' = stats)]_vars

\* Witness of C3: a create, update or delete was rejected by the store
\* and its catch block has run, while the Collection holds entries.
FailedMutationSeen ==
  /\ error.op \in {"createTodo", "updateTodo", "deleteTodo"}
  /\ error.kind = "StoreError"
  /\ ~loading /\ calls = EmptyBag /\ statsq = EmptyBag
  /\ todos # <<>>

\* C4: when logout() completes successfully the Collection is empty and the
\* Statistics are zero (so that the next user never sees the previous
\* user's tasks).
LogoutResetsTaskStore ==
  [][(authOp.kind = "logout" /\ authOp.phase = "resp" /\ authOp.err = NoErr
        /\ authOp' = NoAuthOp)
       => (todos' = <<>> /\ stats' = ZeroStats)]_vars

\* The versions a task row can take.
TaskVersions ==
  {Task(i, user, trim(t), trim(d), b) :
     i \in Ids, t \in {x \in TitleInputs : ~TitleMissing(x)}, d \in DescInputs, b \in BOOLEAN}

\* C5: for every Collection and two versions T, T2 of one task, handling
\* insert(T) then update(T2) gives the Collection that handling update(T2)
\* then insert(T) gives.
InsertUpdateConverge ==
  \A T \in TaskVersions, T2 \in TaskVersions :
    T.id = T2.id =>
      HandleUpdate(HandleInsert(todos, T), T2) = HandleInsert(HandleUpdate(todos, T2), T)

\* C6: an update or toggle that the gateway answers with a task, or an
\* update feed event, for an id with no entry in the Collection puts the
\* task at the head of the Collection.
UpdateOfAbsentIdUpserts ==
  [][/\ \A c \in InFlight :
          (c.kind = "update" /\ Succeeds(c) /\ Resumes(c) /\ ~HasId(todos, c.id))
            => todos' = <<c.data[1]>> \o todos
     /\ \A i \in 1..Len(feed) :
          (feed[i].eventType = "UPDATE" /\ Delivered(i) /\ ~HasId(todos, feed[i].row.id))
            => todos' = <<feed[i].row>> \o todos]_vars

DeleteOfNoRowIsNotFound ==
  [][\A c \in InFlight :
       (c.kind = "delete" /\ c.phase = "resp" /\ c.err = NoError /\ c.matched = 0
          /\ Resumes(c))
         => (error' = Thrown("deleteTodo", "NotFoundError") /\ todos' = todos)]_vars

\* C9: create with a title that is empty after trimming is rejected with a
\* validation error before any call goes out, and the Collection and the
\* Statistics are unchanged.
BlankTitleRejectedBeforeAnyCall ==
  [][\A t \in TitleInputs, d \in DescInputs :
       (trim(t) = <<>> /\ createTodo(t, d))
         => (/\ calls' = calls /\ statsq' = statsq
             /\ rows' = rows /\ nextId' = nextId
             /\ todos' = todos /\ stats' = stats
             /\ error' = Thrown("createTodo", "ValidationError")
             /\ loading' = FALSE)]_vars

\* Witness of C9: createTodo has rejected a blank title; nothing is in
\* flight.
BlankTitleRejectedSeen ==
  /\ error = Thrown("createTodo", "ValidationError")
  /\ calls = EmptyBag /\ statsq = EmptyBag
  /\ ~loading

\* partialFields carries a title that is empty after trimming.
BlankTitle(u) == u.title.p = "value" /\ trim(u.title.v) = <<>>

\* partialFields supplies a value for none of title, description, completed.
SuppliesNoValue(u) == \A k \in Keys : u[k].p # "value"

\* C10: update(id, partialFields) fails with a validation error before any
\* store call when partialFields carries a blank title or supplies no
\* value for any of title, description, completed.
EmptyUpdateRejected ==
  [][\A id \in Ids, u \in UpdateInputs :
       ((BlankTitle(u) \/ SuppliesNoValue(u)) /\ updateTodo(id, u))
         => (calls' = calls /\ error' = Thrown("updateTodo", "ValidationError"))]_vars

\* The callers that invoked unsubscribe() on channel k.
Releasers(k) == {chans[k].unsub[n] : n \in 1..Len(chans[k].unsub)}

\* C11: after reset() the Collection is empty, the four Statistics are 0,
\* no channel is held, and the channel reset released has had its
\* unsubscribe invoked exactly once, later calls of the function that
\* subscribeToRealtime returned for it included.
ResetReleasesOnce ==
  \A k \in 1..Len(chans) :
    "reset" \in Releasers(k) => Len(chans[k].unsub) = 1

\* C12: over any sequence of calls of the returned unsubscribe function,
\* of unsubscribeFromRealtime and of reset, unsubscribe() is invoked on
\* the channel of a subscription at most once (exactly once when it is
\* released), and a call of the returned function for a channel already
\* released changes nothing.
ReleasedExactlyOnce ==
  [][/\ \A k \in 1..Len(chans') : Len(chans'[k].unsub) <= 1
     /\ \A k \in 1..Len(chans) :
          (chans[k].unsub # <<>> /\ unsubscribe(k)) => UNCHANGED vars]_vars

\* C13: in every reachable state at most one channel is subscribed and
\* not released, and a subscribed channel is the one the store's channel
\* field records.
AtMostOneSubscribed ==
  /\ Cardinality(Subscribed) <= 1
  /\ \A k \in Subscribed : channel = k

\* C14: initialize() is idempotent: a call made after or while the session
\* is initialized registers no further auth-state listener and leaves user,
\* loading and initialized as they are; at most one listener is ever
\* registered.
InitializeIdempotent ==
  [][/\ listeners' <= 1
     /\ (initialize /\ (initialized \/ inits # EmptyBag))
          => (inits' = inits /\ authLoading' = authLoading)]_vars

\* C15: a refresh (fetchTodos) that fails in its list fetch or in its
\* statistics fetch leaves the Collection and the Statistics as they were
\* when it was called, records the error it re-raises and puts loading
\* back to false.
FailedRefreshKeepsData ==
  [][/\ \A c \in InFlight :
          (c.kind = "fetch" /\ Resumes(c) /\ ~(c.phase = "resp" /\ c.err = NoError))
            => (todos' = todos /\ stats' = stats)
     /\ \A c \in InFlight :
          (c.kind = "fetch" /\ c.phase = "resp" /\ c.err # NoError /\ Resumes(c))
            => (/\ error' = c.err
                /\ error'.op \in {"getTodos", "getTodoStats"}
                /\ loading' = FALSE)
     /\ (fetchTodos => (todos' = todos /\ stats' = stats))]_vars

\* Witness of C15: a refresh has failed and its catch block has run while
\* the Collection and the Statistics hold loaded data.
FailedRefreshSeen ==
  /\ error.op \in {"getTodos", "getTodoStats"}
  /\ error.kind = "StoreError"
  /\ ~loading /\ calls = EmptyBag
  /\ todos # <<>> /\ stats # ZeroStats

\* C16: in every reachable state the Collection is ordered by created_at
\* descending: no entry stands before an entry that was created later
\* (the store stamps ids in creation order).
OrderedByCreatedAt ==
  \A i, j \in 1..Len(todos) : i < j => todos[i].id >= todos[j].id

\* The store handed out the id and holds no row of it any more: the row
\* was deleted.
Deleted(id) == id < nextId /\ \A r \in rows : r.id # id

\* C17: no deleted item is resurrected: when the row of an id was deleted
\* and the Collection holds no entry of it any more, the completion of a
\* refresh or of an update or toggle that was in flight, or a feed event,
\* does not put an entry of that id back into the Collection.
NoResurrection ==
  [][\A id \in Ids :
       (/\ Deleted(id) /\ ~HasId(todos, id)
        /\ \/ \E c \in InFlight :
                c.kind \in {"fetch", "update"} /\ c.phase = "resp" /\ Resumes(c)
           \/ \E i \in 1..Len(feed) : Delivered(i))
         => ~HasId(todos', id)]_vars

\* Nothing is in flight: every gateway call and statistics fetch has
\* returned and every published event has been delivered.
Quiescent == calls = EmptyBag /\ statsq = EmptyBag /\ feed = <<>>

\* C18: no update is lost: at quiescence, with every committed change
\* delivered, the entries of the Collection are exactly the rows the store
\* holds for the user, each with the store's latest field values.
NoLostUpdate ==
  Quiescent => {todos[i] : i \in 1..Len(todos)} = Visible(user)

\* C19: a malformed feed event (unknown kind, or an insert, update or
\* delete without its row) is dropped: handling it throws nothing, leaves
\* the Collection and the Statistics as they were and adds no undefined
\* entry to the Collection.
MalformedEventDropped ==
  [][\A e \in MalformedEvents :
       OnMalformedChange(e)
         => (/\ todos' = todos /\ stats' = stats
             /\ ~Broken(todos')
             /\ ~PayloadThrows(todos, e))]_vars

\* C20: loading becomes true only by a refresh (fetchTodos): no create,
\* update, toggle, delete or feed event enters the Loading state.
LoadingOnlyByRefresh ==
  [][(~loading /\ loading') => fetchTodos]_vars

\* C21: a successful create puts the returned Task T at the head of the
\* Collection and leaves the rest as it was, T carrying the trimmed title
\* and completed = false; from an empty Collection, with nothing else
\* interleaved, the result is [T] with stats {total 1, completed 0,
\* pending 1, completionRate 0} when the create's statistics fetch returns.
CreatePrependsTask ==
  [][/\ \A c \in InFlight :
          (c.kind = "create" /\ Succeeds(c) /\ Resumes(c))
            => (/\ todos' = <<c.data[1]>> \o todos
                /\ c.data[1].title = trim(c.data[1].title)
                /\ c.data[1].title # <<>>
                /\ c.data[1].completed = FALSE)
     /\ \A q \in StatsInFlight :
          (/\ q.phase = "resp" /\ statsq' = Take(statsq, q)
           /\ calls = EmptyBag /\ feed = <<>> /\ nextId = 2
           /\ Len(todos) = 1 /\ rows = {todos[1]})
            => stats' = [total |-> 1, completed |-> 0, pending |-> 1, completionRate |-> 0]]_vars

\* C22: a successful update or toggle of an id the Collection holds puts
\* the Task the gateway returned in the place of the entry of that id and
\* leaves the length, the order and every other entry as they were.
UpdateReplacesInPlace ==
  [][\A c \in InFlight :
       (c.kind = "update" /\ Succeeds(c) /\ Resumes(c) /\ HasId(todos, c.id))
         => (/\ Len(todos') = Len(todos)
             /\ \A i \in 1..Len(todos) :
                  todos'[i] = IF todos[i].id = c.id THEN c.data[1] ELSE todos[i])]_vars

\* Witness of C22: the Collection is [task 2, task 1] and task 1, in second
\* place, is completed: a toggle replaced it where it stood.
UpdatedInPlaceSeen ==
  /\ Len(todos) = 2
  /\ todos[1].id = 2 /\ todos[2].id = 1
  /\ todos[2].completed
  /\ calls = EmptyBag

\* The statistics replies of getTodoStats that have come back.
StatsReplies ==
  {c \in InFlight : c.kind = "fetch" /\ c.phase = "resp" /\ c.err = NoError}

\* C23: the statistics getTodoStats returns for the rows it fetched have
\* total = the number of rows, completed = the number of completed rows,
\* pending = total - completed and completionRate = completed / total * 100
\* rounded to the nearest integer (halves up), 0 when total = 0; so
\* completed + pending = total and 0 <= completionRate <= 100.
StatsAreCounts ==
  \A c \in StatsReplies :
    LET fetched == Visible(c.tok)
        s == c.st
    IN /\ s.total = Cardinality(fetched)
       /\ s.completed = Cardinality({r \in fetched : r.completed})
       /\ s.pending = s.total - s.completed
       /\ s.completed + s.pending = s.total
       /\ s.completionRate \in 0..100
       /\ s.total = 0 => s.completionRate = 0
       /\ s.total > 0 =>
            /\ 2 * s.completionRate * s.total - s.total <= 200 * s.completed
            /\ 200 * s.completed < 2 * s.completionRate * s.total + s.total

\* Witness of C23: a reply for three rows, two of them completed, carries
\* a rate of 67.
RoundedRateSeen ==
  \E c \in StatsReplies :
    c.st.total = 3 /\ c.st.completed = 2 /\ c.st.completionRate = 67

\* r holds, in the order of list, exactly the entries of list whose
\* completed flag is want: its k-th entry is the entry of list at the k-th
\* position that carries the flag.
IsSelection(r, list, want) ==
  LET at == {i \in 1..Len(list) : list[i].completed = want}
  IN /\ Len(r) = Cardinality(at)
     /\ \A i \in at : r[Cardinality({j \in at : j <= i})] = list[i]

\* C29: a call of filter changes neither the Collection nor the
\* Statistics; filter(all) returns the Collection, filter(completed) and
\* filter(pending) return, in Collection order, exactly the entries with
\* completed true and false, and the two together have as many entries as
\* the Collection.
FilterIsPureRead ==
  [][(read' # read /\ read'.op = "filter")
       => /\ UNCHANGED <<todos, stats>>
          /\ read'.filter = "all" => read'.result = todos
          /\ read'.filter = "completed" => IsSelection(read'.result, todos, TRUE)
          /\ read'.filter = "pending" => IsSelection(read'.result, todos, FALSE)
          /\ Len(FilteredTodos(todos, "completed")) + Len(FilteredTodos(todos, "pending"))
               = Len(todos)]_vars

\* Witness of C29: filter(pending) over a Collection of three entries, the
\* middle one completed, returned the two others.
FilteredPendingSeen ==
  /\ read.op = "filter" /\ read.filter = "pending"
  /\ Len(todos) = 3 /\ todos[2].completed
  /\ read.result = <<todos[1], todos[3]>>

\* s contains t, letter case ignored.
ContainsFold(s, t) == includes(toLowerCase(s), toLowerCase(t))

\* C30: search(term) changes nothing and never fails; a blank term returns
\* the Collection, any other term returns, in Collection order, exactly the
\* entries whose title or description contains the term, letter case
\* ignored (an absent description contains nothing).
SearchIsPureRead ==
  [][(read' # read /\ read'.op = "search")
       => /\ UNCHANGED <<todos, stats>>
          /\ ~read'.threw
          /\ read'.result =
               IF read'.term = <<>> \/ \A i \in 1..Len(read'.term) : read'.term[i] = " "
                 THEN todos
                 ELSE SelectSeq(todos, LAMBDA todo :
                        \/ ContainsFold(todo.title, read'.term)
                        \/ /\ todo.description # NullText
                           /\ ContainsFold(todo.description, read'.term))]_vars

\* C27: the protected content is rendered only when the session check has
\* completed, no auth operation is loading and a user is set; whenever the
\* check has completed, no auth operation is loading and no user is set,
\* the route redirects to /login.
ProtectedContentGuarded ==
  /\ ProtectedRoute = "children" => (initialized /\ ~authLoading /\ user # NoUser)
  /\ (initialized /\ ~authLoading /\ user = NoUser) => ProtectedRoute = "redirect"

\* Witness of C27: the session check found no user and the route redirects.
RedirectSeen ==
  /\ initialized /\ ~authLoading /\ user = NoUser
  /\ inits = EmptyBag
  /\ ProtectedRoute = "redirect"

\* C27 as stated: the route redirects in every state where the check has
\* completed and no user is set.
RedirectsWheneverNoUser ==
  /\ ProtectedRoute = "children" => (initialized /\ ~authLoading /\ user # NoUser)
  /\ (initialized /\ user = NoUser) => ProtectedRoute = "redirect"

\* r's handling moves on in this step, and the records it moves on to.
Advances(r) == CopiesIn(r, http') < CopiesIn(r, http)
Answers(r) == {q \in BagToSet(http') : CopiesIn(q, http') > CopiesIn(q, http)}

\* C24: a request is with a controller (validated, querying the store or
\* answered by it) only when the middleware has verified its credential
\* and set req.user to that user; a request whose credential is missing,
\* empty or invalid issues no store query and is answered with 401.
AuthBeforeController ==
  \A r \in ApiInFlight :
    /\ (\/ r.queries > 0
        \/ r.phase \in {"select", "selected", "query", "queried"}
        \/ r.phase = "done" /\ r.status # 401)
         => (r.cred \in Users /\ r.user = r.cred)
    /\ r.cred \notin Users
         => (/\ r.queries = 0
             /\ r.phase \notin {"select", "selected", "query", "queried"}
             /\ r.phase = "done" => r.status = 401)

\* Witness of C24: a request with an invalid token was answered with 401
\* and issued no query.
UnauthorizedSeen ==
  \E r \in ApiInFlight :
    r.cred = "invalid" /\ r.phase = "done" /\ r.status = 401 /\ r.queries = 0

\* C25: a query issued for a request authenticated as user A leaves the
\* rows of every other user as they were, returns only rows of A, and a
\* row it creates is owned by A whatever user_id the body names.
ApiIsolatesUsers ==
  [][\A r \in ApiInFlight :
       (Advances(r) /\ r.phase \in {"select", "query"})
         => /\ r.user = r.cred /\ r.cred \in Users
            /\ {x \in rows' : x.user_id # r.cred} = {x \in rows : x.user_id # r.cred}
            /\ \A x \in rows' \ rows : x.user_id = r.cred
            /\ \A q \in Answers(r) :
                 \A i \in 1..Len(q.data) : q.data[i].user_id = r.cred]_vars

\* Witness of C25: A's DELETE of the id of a row of B was answered, and
\* the row of B is in the store.
ForeignRowKeptSeen ==
  \E r \in ApiInFlight :
    /\ r.cred = "A" /\ r.op = "deleteTodo" /\ r.phase = "done" /\ r.queries = 1
    /\ \E x \in rows : x.id = r.id /\ x.user_id = "B"

\* C26: a request on /api/todos/:id with a well-formed id that matched no
\* row of the caller is answered with 404 and leaves the store unchanged.
UnownedIdIsNotFound ==
  [][\A r \in ApiInFlight :
       (/\ Advances(r) /\ r.phase \in {"selected", "queried"}
        /\ HasIdParam(r.op) /\ r.id # BadId /\ r.err = "PGRST116")
         => /\ rows' = rows
            /\ \A q \in Answers(r) : q.status = 404]_vars

\* C28: every stored Task has a trimmed title of 1 to 100 characters and
\* a description of at most 500 characters, whether it came through the
\* gateway or through the HTTP API.
TasksWithinLimits ==
  \A x \in rows :
    /\ Len(x.title) \in 1..TitleLimit
    /\ x.title = trim(x.title)
    /\ Len(x.description) <= DescriptionLimit

\* The suspended login, signup or logout resumes in this step.
AuthResumes == authOp.phase \in {"resp", "unconfirmed"} /\ authOp' # authOp

\* C31: a login, signup or logout that the authentication service rejects
\* leaves the held user (and the session) unchanged, records the error,
\* throws it again to the caller, ends loading, and sends no further
\* authentication call: no operation and no session check is started.
AuthRejectionPropagates ==
  [][(AuthResumes /\ authOp.err # NoErr) =>
       /\ user' = user /\ session' = session
       /\ authError' = authOp.err
       /\ ~authLoading'
       /\ AuthSettles(authOp.err, authOp.who) = [threw |-> TRUE, value |-> authOp.err]
       /\ authOp' = NoAuthOp /\ inits' = inits]_vars

\* A rejected logout has left the user in place with the error recorded.
RejectedAuthSeen ==
  authOp = NoAuthOp /\ authError = "AuthError" /\ user \in Users /\ ~authLoading

\* C35: once a user is held, the held user changes only when a logout
\* succeeds or an auth-state event is handled; a session check that
\* resumes neither clears nor replaces the user; and every auth-state
\* event sets the held user to the user of the event's session.
HeldUserIsLatestOutcome ==
  [][/\ (user \in Users /\ user' # user) =>
          \/ AuthResumes /\ authOp.kind = "logout" /\ authOp.err = NoErr
          \/ inits' = inits /\ authOp' = authOp
     /\ (inits' = inits /\ authOp' = authOp /\ session' # session) => user' = session']_vars

\* The session check q resumes in this step.
CheckResumes(q) == q \in InitsInFlight /\ q.phase = "resp" /\ inits' = Take(inits, q)

\* C38: the protected route redirects to /login only in a state where the
\* session check has completed, loading is false and no user is held, so
\* never before the first check has completed; and a check that found the
\* user of the stored session resumes with the dashboard shown.
RedirectOnlyAfterCheck ==
  /\ [](ProtectedRoute = "redirect" => (initialized /\ ~authLoading /\ user = NoUser))
  /\ [][\A q \in InitsInFlight :
          (CheckResumes(q) /\ q.who \in Users) => ProtectedRoute' = "children"]_vars

\* The page was loaded with a stored session, the check has found its user
\* and the dashboard is shown.
SessionRestoredSeen ==
  /\ initialized /\ inits = EmptyBag /\ authOp = NoAuthOp /\ authError = NoErr
  /\ session \in Users /\ user = session
  /\ ProtectedRoute = "children"

\* The task satisfies the filter.
MatchesFilter(todo, filter) ==
  CASE filter = "completed" -> todo.completed
    [] filter = "pending" -> ~todo.completed
    [] OTHER -> TRUE

\* C39: every task the list displays matches the selected filter and, when
\* the search term is not blank, contains the term in its title or its
\* description; under 'completed' no pending task is displayed.
DisplaySatisfiesFilter ==
  (read.op = "display" /\ ~read.threw) =>
    \A i \in 1..Len(read.result) :
      /\ MatchesFilter(read.result[i], read.filter)
      /\ ~TermBlank(read.term) =>
           \/ ContainsFold(read.result[i].title, trim(read.term))
           \/ /\ read.result[i].description # NullText
              /\ ContainsFold(read.result[i].description, trim(read.term))

\* C37: the Statistics never drift: when a statistics fetch resumes, with
\* its result or with its failure, and leaves no gateway call and no
\* statistics fetch in flight, the Statistics are the aggregate computed
\* from the Collection as it is then.
StatsNeverDrift ==
  [][\A q \in StatsInFlight :
       (q.phase = "resp" /\ statsq' = Take(statsq, q)
          /\ statsq' = EmptyBag /\ calls' = EmptyBag) =>
         stats' = StatsOf(todos')]_vars

\* C32: a reset() is not undone by the calls that were in flight when it
\* ran: in the behaviours of SpecReset, where nothing is started after the
\* reset, the Collection stays empty and the Statistics stay zero from the
\* reset on.
ResetStaysClear ==
  channel = NoChannel => (todos = <<>> /\ stats = ZeroStats)

\* The toggle requests answered with 200.
Toggled == {r \in ApiInFlight : r.phase = "done" /\ r.status = 200}

\* The number of toggle requests answered with 200.
ToggledCount == BagCardinality([r \in Toggled |-> CopiesIn(r, http)])

\* C36: every successful toggle flips the flag once: when all the toggle
\* requests sent for the task, which was pending at first, have been
\* answered, the task is completed exactly if an odd number of them
\* succeeded; after two concurrent successful toggles it is pending again.
NoLostToggle ==
  (http # EmptyBag /\ \A r \in ApiInFlight : r.phase = "done") =>
    \A row \in rows : row.id = 1 => (row.completed <=> ToggledCount % 2 = 1)

\* C33: the subscription is scoped to the authenticated user: the filter of
\* every channel names the user of the session that opened it, and no row
\* of another user is on its way to the channel's handler.
SubscriptionScopedToUser ==
  /\ \A k \in 1..Len(chans) : chans[k].filter = chans[k].who
  /\ \A i \in 1..Len(feed) : feed[i].row.user_id = chans[feed[i].ch].who

\* C34: the subscription follows the session: no channel other than the
\* one the store holds is subscribed; a dashboard that is shown gets a
\* subscribed channel unless it stops being shown first (as long as
\* channels are left to create within MaxChannels); and once no user is
\* held, every channel is released unless a user is set again first.
SubscriptionFollowsSession ==
  /\ [](Subscribed \subseteq {channel})
  /\ (DashboardShown /\ Len(chans) < MaxChannels) ~> (~DashboardShown \/ channel \in Subscribed)
  /\ (user = NoUser) ~> (user # NoUser \/ Subscribed = {})

\* A user was logged in with a channel open, and now no user is held and
\* the channel has been released.
ReleasedAfterLogout ==
  /\ initialized /\ user = NoUser /\ session = NoUser /\ authOp = NoAuthOp
  /\ chans # <<>> /\ Subscribed = {} /\ channel = NoChannel

\* C34 as stated: in every state where the dashboard is shown a channel is
\* subscribed.
ChannelWheneverShown == DashboardShown => channel \in Subscribed

====
